---- MODULE Spec2Model ----
(***************************************************************************)
(* View Element of the editing engine (engine/view/element.ts): attribute  *)
(* storage and normalisation, attribute and child mutation with change     *)
(* notifications, similarity / identity comparison and matcher support;    *)
(* and the converters of the bookmark feature (bookmark/bookmarkediting).  *)
(*                                                                         *)
(* Strings are TLC strings; concatenation is \o.  Splitting a string on    *)
(* whitespace and parsing an inline style are tables over the strings the  *)
(* model can produce (Words, ParseStyle).                                  *)
(***************************************************************************)
EXTENDS Integers, Sequences, FiniteSets, TLC

VARIABLES
    name,       \* name[n]: the element's name; NoName while n is not constructed
    attrs,      \* attrs[n]: the _attrs Map, a sequence of entries in insertion order
    children,   \* children[n]: the _children array
    parent,     \* parent[n]: Node.parent, Null when detached
    bookmarkElements,   \* BookmarkEditing.bookmarkElements: a Map from model element to id
    call        \* the last call: operation, receiver, value returned, notifications fired

vars == <<name, attrs, children, parent, bookmarkElements, call>>

(***************************************************************************)
(* Bounds and universes.                                                   *)
(***************************************************************************)
MaxItems == 2       \* the longest list of items passed to a child operation
MaxPatterns == 2    \* the longest list of patterns passed to _getAttributesMatch

Nodes == {1, 2, 3, 4, 5, 6}
Null == 0
NoName == ""
None == [kind |-> "undefined"]

(***************************************************************************)
(* Values: a plain string, the two structured kinds, and the other shapes  *)
(* a caller can pass as an attribute value.  A TokenList or a StylesMap is *)
(* an object that is changed in place: ref tells which object it is.  An   *)
(* element holds at most one such object per key, so an object is named    *)
(* by the element and the key it was first stored under; NoRef is an       *)
(* object that is in no element's map yet.                                 *)
(***************************************************************************)
NoRef == [owner |-> 0, key |-> ""]
Ref(e, key) == [owner |-> e, key |-> key]

Str(s) == [kind |-> "string", str |-> s, toks |-> <<>>, props |-> <<>>, ref |-> NoRef]
TokenList(toks) ==
    [kind |-> "TokenList", str |-> "", toks |-> toks, props |-> <<>>, ref |-> NoRef]
StylesMap(props) ==
    [kind |-> "StylesMap", str |-> "", toks |-> <<>>, props |-> props, ref |-> NoRef]
Arr(items) == [kind |-> "array", str |-> "", toks |-> items, props |-> <<>>, ref |-> NoRef]
Obj(props) == [kind |-> "object", str |-> "", toks |-> <<>>, props |-> props, ref |-> NoRef]
NullValue == [kind |-> "null", str |-> "", toks |-> <<>>, props |-> <<>>, ref |-> NoRef]

\* Returned values: undefined is None, an array of nodes is Arr( nodes )
Bool(b) == [kind |-> "boolean", b |-> b]
Num(n) == [kind |-> "number", n |-> n]
Match(pairs) == [kind |-> "match", pairs |-> pairs]

Range(s) == {s[i] : i \in 1..Len(s)}

\* Array.prototype.join
RECURSIVE Join(_, _)
Join(items, sep) ==
    IF items = <<>> THEN ""
    ELSE IF Len(items) = 1 THEN items[1]
    ELSE items[1] \o sep \o Join(Tail(items), sep)

\* The strings of the model in the order of their UTF-16 code units, which is
\* the order Array.prototype.sort() uses.
Lex == << "", "a", "class", "color", "color:blue", "color:red", "div", "href",
          "id", "margin", "margin:0", "rel", "style", "x", "x y", "y", "y x", "z" >>

Rank(s) == CHOOSE i \in 1..Len(Lex) : Lex[i] = s

\* Array.prototype.sort(): items are [k |-> the string compared, v |-> the item]
RECURSIVE InsertSorted(_, _)
InsertSorted(sorted, item) ==
    IF sorted = <<>> THEN <<item>>
    ELSE IF Rank(item.k) < Rank(sorted[1].k) THEN <<item>> \o sorted
    ELSE <<sorted[1]>> \o InsertSorted(Tail(sorted), item)

RECURSIVE Sort(_)
Sort(items) ==
    IF items = <<>> THEN <<>>
    ELSE InsertSorted(Sort(Tail(items)), items[1])

\* String.prototype.split( /\s+/ )
Words(s) ==
    CASE s = "x y" -> <<"x", "y">>
      [] s = "y x" -> <<"y", "x">>
      [] OTHER -> <<s>>

\* The declarations of an inline style string, in order
ParseStyle(s) ==
    CASE s = "color:red;" -> << <<"color", "red">> >>
      [] s = "color:blue;" -> << <<"color", "blue">> >>
      [] s = "margin:0;" -> << <<"margin", "0">> >>
      [] s = "color:red;margin:0;" -> << <<"color", "red">>, <<"margin", "0">> >>
      [] s = "color:blue;margin:0;" -> << <<"color", "blue">>, <<"margin", "0">> >>
      [] OTHER -> <<>>

(***************************************************************************)
(* Map<string, V>: entries [key, val] in insertion order.                  *)
(***************************************************************************)
MapKeys(m) == [i \in 1..Len(m) |-> m[i].key]
MapHas(m, k) == \E i \in 1..Len(m) : m[i].key = k
MapGet(m, k) == IF MapHas(m, k) THEN m[CHOOSE i \in 1..Len(m) : m[i].key = k].val ELSE None
MapSet(m, k, v) ==
    IF MapHas(m, k)
    THEN [i \in 1..Len(m) |-> IF m[i].key = k THEN [key |-> k, val |-> v] ELSE m[i]]
    ELSE Append(m, [key |-> k, val |-> v])
MapDelete(m, k) == SelectSeq(m, LAMBDA en : en.key # k)

\* toMap( attrs ): new Map( entries )
RECURSIVE toMap(_)
toMap(entries) ==
    IF entries = <<>> THEN <<>>
    ELSE LET n == Len(entries)
         IN MapSet(toMap(SubSeq(entries, 1, n - 1)), entries[n].key, entries[n].val)

(***************************************************************************)
(* TokenList: an ordered set of tokens.                                    *)
(***************************************************************************)
RECURSIVE TL_add(_, _)
TL_add(toks, new) ==
    IF new = <<>> THEN toks
    ELSE TL_add(IF new[1] = "" \/ new[1] \in Range(toks) THEN toks ELSE Append(toks, new[1]),
                Tail(new))

TL_setTo(s) == TL_add(<<>>, Words(s))
TL_remove(toks, rm) == SelectSeq(toks, LAMBDA t : t \notin Range(rm))
TL_toString(toks) == Join(toks, " ")
TL_isSimilar(toks, other) == Len(toks) = Len(other) /\ Range(toks) \subseteq Range(other)
TL_isMatching(toks, other) == Range(other) \subseteq Range(toks)

(***************************************************************************)
(* StylesMap: declarations <<property, value>> in insertion order.         *)
(***************************************************************************)
SM_names(props) == [i \in 1..Len(props) |-> props[i][1]]
SM_has(props, p) == \E i \in 1..Len(props) : props[i][1] = p
SM_getAsString(props, p) ==
    IF SM_has(props, p) THEN props[CHOOSE i \in 1..Len(props) : props[i][1] = p][2] ELSE ""
SM_set(props, p, v) ==
    IF SM_has(props, p)
    THEN [i \in 1..Len(props) |-> IF props[i][1] = p THEN <<p, v>> ELSE props[i]]
    ELSE Append(props, <<p, v>>)

RECURSIVE SM_setAll(_, _)
SM_setAll(props, new) ==
    IF new = <<>> THEN props
    ELSE SM_setAll(SM_set(props, new[1][1], new[1][2]), Tail(new))

SM_setTo(s) == SM_setAll(<<>>, ParseStyle(s))
SM_remove(props, rm) == SelectSeq(props, LAMBDA d : d[1] \notin Range(rm))
SM_declaration(d) == d[1] \o ":" \o d[2]
SM_toString(props) ==
    IF props = <<>> THEN ""
    ELSE LET sorted == Sort([i \in 1..Len(props) |->
                               [k |-> SM_declaration(props[i]), v |-> SM_declaration(props[i])]])
         IN Join([i \in 1..Len(sorted) |-> sorted[i].v], ";") \o ";"
SM_isSimilar(props, other) ==
    /\ Len(props) = Len(other)
    /\ \A i \in 1..Len(props) :
           /\ SM_has(other, props[i][1])
           /\ SM_getAsString(other, props[i][1]) = props[i][2]
SM_canMergeFrom(props, other) ==
    \A i \in 1..Len(other) :
        SM_has(props, other[i][1]) => SM_getAsString(props, other[i][1]) = other[i][2]
SM_isMatching(props, other) ==
    \A i \in 1..Len(other) :
        SM_has(props, other[i][1]) /\ SM_getAsString(props, other[i][1]) = other[i][2]

RECURSIVE SM_mergeFrom(_, _)
SM_mergeFrom(props, other) ==
    IF other = <<>> THEN props
    ELSE SM_mergeFrom(IF SM_has(props, other[1][1]) THEN props
                      ELSE SM_set(props, other[1][1], other[1][2]),
                      Tail(other))

(***************************************************************************)
(* ElementAttributeValue: dispatch on the structured kind.                 *)
(***************************************************************************)
IsString(v) == v.kind = "string"
V_isEmpty(v) == IF v.kind = "TokenList" THEN v.toks = <<>> ELSE v.props = <<>>
V_keys(v) == IF v.kind = "TokenList" THEN v.toks ELSE SM_names(v.props)
V_has(v, t) == IF v.kind = "TokenList" THEN t \in Range(v.toks) ELSE SM_has(v.props, t)
\* setTo, remove, set and mergeFrom change the object v and leave it the same object
V_setTo(v, s) ==
    IF v.kind = "TokenList" THEN [v EXCEPT !.toks = TL_setTo(s)]
    ELSE [v EXCEPT !.props = SM_setTo(s)]
V_remove(v, rm) ==
    IF v.kind = "TokenList" THEN [v EXCEPT !.toks = TL_remove(@, rm)]
    ELSE [v EXCEPT !.props = SM_remove(@, rm)]
V_isSimilar(v, o) ==
    IF v.kind = "TokenList" THEN TL_isSimilar(v.toks, o.toks) ELSE SM_isSimilar(v.props, o.props)
V_canMergeFrom(v, o) ==
    IF v.kind = "TokenList" THEN TRUE ELSE SM_canMergeFrom(v.props, o.props)
V_isMatching(v, o) ==
    IF v.kind = "TokenList" THEN TL_isMatching(v.toks, o.toks)
    ELSE SM_isMatching(v.props, o.props)
V_mergeFrom(v, o) ==
    IF v.kind = "TokenList" THEN [v EXCEPT !.toks = TL_add(@, o.toks)]
    ELSE [v EXCEPT !.props = SM_mergeFrom(@, o.props)]

\* TokenList._clone(), StylesMap._clone(): a new object with the same content
V_clone(v) == [v EXCEPT !.ref = NoRef]

\* String( value )
String(v) ==
    CASE v.kind = "string" -> v.str
      [] v.kind = "TokenList" -> TL_toString(v.toks)
      [] v.kind = "StylesMap" -> SM_toString(v.props)
      [] v.kind = "array" -> Join(v.toks, ",")
      [] v.kind = "object" -> "[object Object]"
      [] OTHER -> v.kind

(***************************************************************************)
(* element.ts: the module's functions.                                     *)
(***************************************************************************)
\* rel taken for a token list on every element
usesTokenListOnAnyElement(elementName, key) == key = "class" \/ key = "rel"

usesTokenList(elementName, key) == key = "class" \/ (elementName = "a" /\ key = "rel")

usesStylesMap(elementName, key) == key = "style"

\* an entry parsed without the structured kinds: every value becomes a string
parseValueAsString(elementName, key, value) == Str(String(value))

\* an entry parsed without _clone(): the caller's object itself is kept
parseValueShared(elementName, key, value) ==
    IF usesStylesMap(elementName, key)
    THEN IF value.kind = "StylesMap" THEN value ELSE StylesMap(SM_setTo(String(value)))
    ELSE IF usesTokenList(elementName, key)
    THEN IF value.kind = "TokenList" THEN value ELSE TokenList(TL_setTo(String(value)))
    ELSE IF value.kind # "string" THEN Str(String(value))
    ELSE value

\* _parseAttributes: one entry of the map
parseValue(elementName, key, value) ==
    IF usesStylesMap(elementName, key)
    THEN IF value.kind = "StylesMap" THEN V_clone(value)
         ELSE StylesMap(SM_setTo(String(value)))
    ELSE IF usesTokenList(elementName, key)
    THEN IF value.kind = "TokenList" THEN V_clone(value)
         ELSE TokenList(TL_setTo(String(value)))
    ELSE IF value.kind # "string" THEN Str(String(value))
    ELSE value

RECURSIVE parseEntries(_, _)
parseEntries(elementName, m) ==
    IF m = <<>> THEN <<>>
    ELSE IF m[1].val.kind = "null" THEN parseEntries(elementName, Tail(m))
    ELSE <<[key |-> m[1].key, val |-> parseValue(elementName, m[1].key, m[1].val)]>>
         \o parseEntries(elementName, Tail(m))

_parseAttributes(elementName, entries) == parseEntries(elementName, toMap(entries))

(***************************************************************************)
(* The heap a call works on: the state variables, the notifications the    *)
(* call has fired so far and the value it returns.  Notifications are      *)
(* delivered synchronously, so none outlives the call.                     *)
(***************************************************************************)
Heap == [name |-> name, attrs |-> attrs, children |-> children, parent |-> parent,
         bookmarkElements |-> bookmarkElements, log |-> <<>>, ret |-> None]

Returning(h, value) == [h EXCEPT !.ret = value]

\* Node._fireChange( type, node ): the observer is told the kind and the subject
\* and reads the subject as it is at that moment.
_fireChange(h, type, node) ==
    [h EXCEPT !.log = Append(@, [type |-> type, node |-> node,
                                 attrs |-> h.attrs[node], children |-> h.children[node]])]

\* this._attrs = map, this._attrs.set( key, object ): an object that was in no
\* map is in the map of e from now on
held(e, key, v) ==
    IF v.kind \in {"TokenList", "StylesMap"} /\ v.ref = NoRef
    THEN [v EXCEPT !.ref = Ref(e, key)]
    ELSE v

holdAll(e, m) == [i \in 1..Len(m) |-> [key |-> m[i].key, val |-> held(e, m[i].key, m[i].val)]]

\* a map as every holder of the object v sees it once v has changed in place
seenIn(m, v) == [i \in 1..Len(m) |-> IF m[i].val.ref = v.ref THEN [m[i] EXCEPT !.val = v]
                                      ELSE m[i]]

\* the structured value of e under key after the call that made it v: a new
\* object is set in the map of e, a stored one has changed for all its holders
changeValue(h, e, key, v) ==
    IF v.ref = NoRef THEN [h EXCEPT !.attrs[e] = MapSet(@, key, held(e, key, v))]
    ELSE [h EXCEPT !.attrs = [n \in DOMAIN @ |-> seenIn(@[n], v)]]

(***************************************************************************)
(* Attribute access and comparison.                                        *)
(***************************************************************************)
\* the keys as the map stores them
getAttributeKeysStored(h, e) == MapKeys(h.attrs[e])

\* getAttributeKeys(): the keys in the order they are yielded
getAttributeKeys(h, e) ==
    LET IsOther(key) == key # "class" /\ key # "style"
    IN (IF MapHas(h.attrs[e], "class") THEN <<"class">> ELSE <<>>)
       \o (IF MapHas(h.attrs[e], "style") THEN <<"style">> ELSE <<>>)
       \o SelectSeq(MapKeys(h.attrs[e]), IsOther)

getAttribute(h, e, key) ==
    IF MapHas(h.attrs[e], key) THEN Str(String(MapGet(h.attrs[e], key))) ELSE None

hasAttribute(h, e, key, token) ==
    IF ~MapHas(h.attrs[e], key) THEN FALSE
    ELSE IF token # None
    THEN IF usesStylesMap(h.name[e], key) \/ usesTokenList(h.name[e], key)
         THEN V_has(MapGet(h.attrs[e], key), token.str)
         ELSE MapGet(h.attrs[e], key) = token
    ELSE TRUE

\* hasClass( ...className ), hasStyle( ...property ): this._classes and
\* this._styles are the values stored under class and style
hasClass(h, e, className) ==
    \A i \in 1..Len(className) :
        MapHas(h.attrs[e], "class") /\ V_has(MapGet(h.attrs[e], "class"), className[i])

hasStyle(h, e, property) ==
    \A i \in 1..Len(property) :
        MapHas(h.attrs[e], "style") /\ V_has(MapGet(h.attrs[e], "style"), property[i])

\* isSimilar without the comparison of the sizes of the two maps
isSimilarNoSizeCheck(h, e, o) ==
    IF e = o THEN TRUE
    ELSE IF h.name[e] # h.name[o] THEN FALSE
    ELSE \A i \in 1..Len(h.attrs[e]) :
             LET key == h.attrs[e][i].key
                 value == h.attrs[e][i].val
                 otherValue == MapGet(h.attrs[o], key)
             IN /\ otherValue # None
                /\ IF IsString(value) \/ IsString(otherValue)
                   THEN otherValue = value
                   ELSE V_isSimilar(value, otherValue)

isSimilar(h, e, o) ==
    IF e = o THEN TRUE
    ELSE IF h.name[e] # h.name[o] THEN FALSE
    ELSE IF Len(h.attrs[e]) # Len(h.attrs[o]) THEN FALSE
    ELSE \A i \in 1..Len(h.attrs[e]) :
             LET key == h.attrs[e][i].key
                 value == h.attrs[e][i].val
                 otherValue == MapGet(h.attrs[o], key)
             IN /\ otherValue # None
                /\ IF IsString(value) \/ IsString(otherValue)
                   THEN otherValue = value
                   ELSE V_isSimilar(value, otherValue)

_canMergeAttributesFrom(h, e, o) ==
    IF h.name[e] # h.name[o] THEN FALSE
    ELSE \A i \in 1..Len(h.attrs[o]) :
             LET key == h.attrs[o][i].key
                 otherValue == h.attrs[o][i].val
                 value == MapGet(h.attrs[e], key)
             IN \/ value = None
                \/ IF IsString(value) \/ IsString(otherValue)
                   THEN value = otherValue
                   ELSE V_canMergeFrom(value, otherValue)

_hasAttributesMatching(h, e, o) ==
    IF h.name[e] # h.name[o] THEN FALSE
    ELSE \A i \in 1..Len(h.attrs[o]) :
             LET key == h.attrs[o][i].key
                 otherValue == h.attrs[o][i].val
                 value == MapGet(h.attrs[e], key)
             IN /\ value # None
                /\ IF IsString(value) \/ IsString(otherValue)
                   THEN value = otherValue
                   ELSE V_isMatching(value, otherValue)

\* classes: this._classes.keys().sort().join( ',' )
identityClasses(m) ==
    IF MapHas(m, "class")
    THEN LET toks == MapGet(m, "class").toks
             sorted == Sort([i \in 1..Len(toks) |-> [k |-> toks[i], v |-> toks[i]]])
         IN Join([i \in 1..Len(sorted) |-> sorted[i].v], ",")
    ELSE ""

\* attributes: the entries other than class and style as key="value", sorted.
\* No key of the model is a prefix of another, so the order of the items is the
\* order of their keys.
identityAttributes(m) ==
    LET rest == SelectSeq(m, LAMBDA en : en.key # "style" /\ en.key # "class")
        items == [i \in 1..Len(rest) |->
                     [k |-> rest[i].key,
                      v |-> rest[i].key \o "=\"" \o String(rest[i].val) \o "\""]]
        sorted == Sort(items)
    IN Join([i \in 1..Len(sorted) |-> sorted[i].v], " ")

getIdentity(h, e) ==
    LET classes == identityClasses(h.attrs[e])
        styles == IF MapHas(h.attrs[e], "style") THEN String(MapGet(h.attrs[e], "style")) ELSE ""
        attributes == identityAttributes(h.attrs[e])
    IN h.name[e]
       \o (IF classes = "" THEN "" ELSE " class=\"" \o classes \o "\"")
       \o (IF styles = "" THEN "" ELSE " style=\"" \o styles \o "\"")
       \o (IF attributes = "" THEN "" ELSE " " \o attributes)

(***************************************************************************)
(* Attribute mutation.                                                     *)
(***************************************************************************)
\* the structured value _setAttribute works on: the stored one, or a new empty one
currentValueOf(h, e, key) ==
    IF MapHas(h.attrs[e], key) THEN MapGet(h.attrs[e], key)
    ELSE IF usesStylesMap(h.name[e], key) THEN StylesMap(<<>>) ELSE TokenList(<<>>)

assignAttribute(h, e, key, value, reset) ==
    IF usesStylesMap(h.name[e], key) \/ usesTokenList(h.name[e], key)
    THEN LET currentValue == currentValueOf(h, e, key)
             newValue ==
                 IF reset THEN V_setTo(currentValue, String(value))
                 ELSE IF usesStylesMap(h.name[e], key)
                 THEN IF value.kind = "array"
                      THEN [currentValue EXCEPT
                                !.props = SM_set(@, value.toks[1], value.toks[2])]
                      ELSE [currentValue EXCEPT !.props = SM_setAll(@, value.props)]
                 ELSE [currentValue EXCEPT
                           !.toks = TL_add(@, IF IsString(value) THEN Words(value.str)
                                              ELSE value.toks)]
         IN changeValue(h, e, key, newValue)
    ELSE [h EXCEPT !.attrs[e] = MapSet(@, key, Str(String(value)))]

_setAttributeLate(h, e, key, value, reset) ==
    _fireChange(assignAttribute(h, e, key, value, reset), "attributes", e)

_setAttribute(h, e, key, value, reset) ==
    assignAttribute(_fireChange(h, "attributes", e), e, key, value, reset)

\* _removeAttribute that leaves a structured value that became empty in the map
_removeAttributeKeepEmpty(h, e, key, tokens) ==
    LET h1 == _fireChange(h, "attributes", e)
    IN IF tokens # None /\ (usesStylesMap(h.name[e], key) \/ usesTokenList(h.name[e], key))
       THEN IF ~MapHas(h1.attrs[e], key) THEN Returning(h1, Bool(FALSE))
            ELSE LET list == IF usesTokenList(h.name[e], key) /\ IsString(tokens)
                             THEN Words(tokens.str)
                             ELSE IF IsString(tokens) THEN <<tokens.str>> ELSE tokens.toks
                 IN Returning(changeValue(h1, e, key, V_remove(MapGet(h1.attrs[e], key), list)),
                              Bool(FALSE))
       ELSE Returning([h1 EXCEPT !.attrs[e] = MapDelete(@, key)], Bool(MapHas(h1.attrs[e], key)))

_removeAttribute(h, e, key, tokens) ==
    LET h1 == _fireChange(h, "attributes", e)
    IN IF tokens # None /\ (usesStylesMap(h.name[e], key) \/ usesTokenList(h.name[e], key))
       THEN IF ~MapHas(h1.attrs[e], key) THEN Returning(h1, Bool(FALSE))
            ELSE LET currentValue == MapGet(h1.attrs[e], key)
                     list == IF usesTokenList(h.name[e], key) /\ IsString(tokens)
                             THEN Words(tokens.str)
                             ELSE IF IsString(tokens) THEN <<tokens.str>> ELSE tokens.toks
                     removed == V_remove(currentValue, list)
                     h2 == changeValue(h1, e, key, removed)
                 IN IF V_isEmpty(removed)
                    THEN Returning([h2 EXCEPT !.attrs[e] = MapDelete(@, key)], Bool(TRUE))
                    ELSE Returning(h2, Bool(FALSE))
       ELSE Returning([h1 EXCEPT !.attrs[e] = MapDelete(@, key)], Bool(MapHas(h1.attrs[e], key)))

\* _addClass that sets the classes instead of adding to them
_addClassReset(h, e, className) == _setAttribute(h, e, "class", className, TRUE)

_addClass(h, e, className) == _setAttribute(h, e, "class", className, FALSE)

_removeClass(h, e, className) == Returning(_removeAttribute(h, e, "class", className), None)

_setStyle(h, e, property, value) ==
    IF ~IsString(property) THEN _setAttribute(h, e, "style", property, FALSE)
    ELSE _setAttribute(h, e, "style", Arr(<<property.str, value.str>>), FALSE)

_removeStyle(h, e, property) == Returning(_removeAttribute(h, e, "style", property), None)

\* the loop of _mergeAttributesFrom without value.mergeFrom( otherValue )
RECURSIVE mergeEntriesSetOnly(_, _, _)
mergeEntriesSetOnly(h, e, entries) ==
    IF entries = <<>> THEN h
    ELSE LET key == entries[1].key
             otherValue == entries[1].val
             value == MapGet(h.attrs[e], key)
             h1 == IF value = None \/ IsString(value) \/ IsString(otherValue)
                   THEN _setAttribute(h, e, key, otherValue, TRUE)
                   ELSE h
         IN mergeEntriesSetOnly(h1, e, Tail(entries))

\* the loop of _mergeAttributesFrom over the other element's entries
RECURSIVE mergeEntries(_, _, _)
mergeEntries(h, e, entries) ==
    IF entries = <<>> THEN h
    ELSE LET key == entries[1].key
             otherValue == entries[1].val
             value == MapGet(h.attrs[e], key)
             h1 == IF value = None \/ IsString(value) \/ IsString(otherValue)
                   THEN _setAttribute(h, e, key, otherValue, TRUE)
                   ELSE changeValue(h, e, key, V_mergeFrom(value, otherValue))
         IN mergeEntries(h1, e, Tail(entries))

_mergeAttributesFromUnchecked(h, e, o) ==
    Returning(mergeEntries(_fireChange(h, "attributes", e), e, h.attrs[o]), Bool(TRUE))

_mergeAttributesFrom(h, e, o) ==
    IF ~_canMergeAttributesFrom(h, e, o) THEN Returning(h, Bool(FALSE))
    ELSE Returning(mergeEntries(_fireChange(h, "attributes", e), e, h.attrs[o]), Bool(TRUE))

\* the loop of _subtractAttributesOf deleting every key of the other element
RECURSIVE subtractEntriesDeleteAll(_, _, _)
subtractEntriesDeleteAll(h, e, entries) ==
    IF entries = <<>> THEN h
    ELSE subtractEntriesDeleteAll([h EXCEPT !.attrs[e] = MapDelete(@, entries[1].key)],
                                  e, Tail(entries))

\* the loop of _subtractAttributesOf over the other element's entries
RECURSIVE subtractEntries(_, _, _)
subtractEntries(h, e, entries) ==
    IF entries = <<>> THEN h
    ELSE LET key == entries[1].key
             otherValue == entries[1].val
             value == MapGet(h.attrs[e], key)
             h1 == IF IsString(value) \/ IsString(otherValue)
                   THEN [h EXCEPT !.attrs[e] = MapDelete(@, key)]
                   ELSE LET removed == V_remove(value, V_keys(otherValue))
                            h2 == changeValue(h, e, key, removed)
                        IN IF V_isEmpty(removed)
                           THEN [h2 EXCEPT !.attrs[e] = MapDelete(@, key)]
                           ELSE h2
         IN subtractEntries(h1, e, Tail(entries))

_subtractAttributesOf(h, e, o) ==
    IF ~_hasAttributesMatching(h, e, o) THEN Returning(h, Bool(FALSE))
    ELSE Returning(subtractEntries(_fireChange(h, "attributes", e), e, h.attrs[o]), Bool(TRUE))

(***************************************************************************)
(* Children.                                                               *)
(***************************************************************************)
\* Array.prototype.indexOf, 0-based; -1 when absent
getChildIndex(h, e, node) ==
    IF node \in Range(h.children[e])
    THEN (CHOOSE i \in 1..Len(h.children[e]) :
              /\ h.children[e][i] = node
              /\ \A j \in 1..(i - 1) : h.children[e][j] # node) - 1
    ELSE -1

\* Array.prototype.splice( index, 0, node ): an index past the end inserts at the end
spliceIn(list, index, node) ==
    LET at == IF index > Len(list) THEN Len(list) ELSE index
    IN SubSeq(list, 1, at) \o <<node>> \o SubSeq(list, at + 1, Len(list))

\* Array.prototype.splice( index, howMany ): the list left
spliceOut(list, index, howMany) ==
    SubSeq(list, 1, index) \o SubSeq(list, index + howMany + 1, Len(list))

\* the loop of _removeChildren that nulls the parent of the removed children
removedOf(list, index, howMany) == SubSeq(list, index + 1, index + howMany)

\* _removeChildren without the loop that clears the parent of the removed children
_removeChildrenKeepParent(h, e, index, howMany) ==
    LET h1 == _fireChange(h, "children", e)
    IN Returning([h1 EXCEPT !.children[e] = spliceOut(@, index, howMany)],
                 Arr(removedOf(h1.children[e], index, howMany)))

_removeChildren(h, e, index, howMany) ==
    LET h1 == _fireChange(h, "children", e)
        removed == removedOf(h1.children[e], index, howMany)
    IN Returning([h1 EXCEPT !.parent = [n \in Nodes |-> IF n \in Range(removed) THEN Null ELSE @[n]],
                            !.children[e] = spliceOut(@, index, howMany)],
                 Arr(removed))

\* Node._remove(): this.parent._removeChildren( this.index )
_remove(h, node) ==
    _removeChildren(h, h.parent[node], getChildIndex(h, h.parent[node], node), 1)

\* normalize( document, items ): the items of the model are nodes, which pass through
normalize(items) == items

\* a round of the loop that leaves the node in its old parent's children
insertNodeNoDetach(h, e, index, node) ==
    [h EXCEPT !.parent[node] = e, !.children[e] = spliceIn(@, index, node)]

\* one round of the loop of _insertChild
insertNode(h, e, index, node) ==
    LET h1 == IF h.parent[node] # Null THEN _remove(h, node) ELSE h
    IN [h1 EXCEPT !.parent[node] = e, !.children[e] = spliceIn(@, index, node)]

RECURSIVE insertNodes(_, _, _, _)
insertNodes(h, e, index, nodes) ==
    IF nodes = <<>> THEN h
    ELSE insertNodes(insertNode(h, e, index, nodes[1]), e, index + 1, Tail(nodes))

_insertChild(h, e, index, items) ==
    LET h1 == _fireChange(h, "children", e)
        nodes == normalize(items)
    IN Returning(insertNodes(h1, e, index, nodes), Num(Len(nodes)))

_appendChild(h, e, items) == _insertChild(h, e, Len(h.children[e]), items)

\* new Element( document, name, attrs, children )
construct(h, e, elementName, attributes, kids) ==
    LET h1 == [h EXCEPT !.name[e] = elementName,
                        !.attrs[e] = holdAll(e, _parseAttributes(elementName, attributes)),
                        !.children[e] = <<>>]
    IN Returning(IF kids # None THEN _insertChild(h1, e, 0, kids.toks) ELSE h1, None)

\* _clone( false ) into the new object c: the constructor is given this._attrs
\* and an empty array of children
_clone(h, e, c) == construct(h, c, h.name[e], h.attrs[e], Arr(<<>>))

\* _clone( true ) with the constructor given this element's own children
\* instead of their clones
_cloneDeepSameChildren(h, e) ==
    LET c == CHOOSE n \in DOMAIN h.name :
                 h.name[n] = NoName /\ \A m \in DOMAIN h.name : m < n => h.name[m] # NoName
    IN Returning(construct(h, c, h.name[e], h.attrs[e], Arr(h.children[e])), Num(c))

\* new: the objects are allocated in the order of their numbers
newObject(h) ==
    CHOOSE n \in DOMAIN h.name :
        h.name[n] = NoName /\ \A m \in DOMAIN h.name : m < n => h.name[m] # NoName

RECURSIVE _cloneDeep(_, _)
RECURSIVE cloneChildren(_, _, _)
\* the loop of _clone( true ) over this.getChildren(): childrenClone is returned
cloneChildren(h, kids, childrenClone) ==
    IF kids = <<>> THEN Returning(h, Arr(childrenClone))
    ELSE LET h1 == _cloneDeep(h, kids[1])
         IN cloneChildren(h1, Tail(kids), Append(childrenClone, h1.ret.n))

\* _clone( true ): the clone is returned
_cloneDeep(h, e) ==
    LET h1 == cloneChildren(h, h.children[e], <<>>)
        c == newObject(h1)
    IN Returning(construct(h1, c, h.name[e], h.attrs[e], h1.ret), Num(c))

(***************************************************************************)
(* bookmarkediting: the converters and the matcher.  A model element is an *)
(* object named 'bookmark' whose attributes are kept as they are given.    *)
(***************************************************************************)
\* writer.createElement( name, attributes ) of the model
createElement(h, m, elementName, attributes) ==
    [h EXCEPT !.name[m] = elementName, !.attrs[m] = toMap(attributes), !.children[m] = <<>>]

\* modelElement.getAttribute( key )
modelGetAttribute(h, m, key) == MapGet(h.attrs[m], key)

\* the DowncastWriter: each method constructs a view element
createEmptyElement(h, v, elementName, attributes) ==
    construct(h, v, elementName, attributes, None)

createUIElement(h, v, elementName, attributes) ==
    construct(h, v, elementName, attributes, None)

createContainerElement(h, v, elementName, attributes, kids) ==
    construct(h, v, elementName, attributes, kids)

\* toWidget( element, writer, options ): the element itself, with its filler
\* offset overridden
toWidget(h, v) == Returning(h, Num(v))

\* what upcastMatcher returns for a bookmark
BookmarkPattern == [kind |-> "pattern", name |-> TRUE, attributes |-> <<"id">>]

\* upcastMatcher without the test of isEmpty
upcastMatcherAnyChildren(h, element, dataPipeline) ==
    IF h.name[element] # "a" THEN NullValue
    ELSE IF ~hasAttribute(h, element, "id", None) \/ hasAttribute(h, element, "href", None)
    THEN NullValue
    ELSE BookmarkPattern

upcastMatcher(h, element, dataPipeline) ==
    IF h.name[element] # "a" THEN NullValue
    ELSE LET hasIdAttribute == hasAttribute(h, element, "id", None)
             hasHrefAttribute == hasAttribute(h, element, "href", None)
             isEmpty == Len(h.children[element]) = 0
         IN IF ~hasIdAttribute \/ hasHrefAttribute \/ (dataPipeline /\ ~isEmpty)
            THEN NullValue
            ELSE BookmarkPattern

\* the dataDowncast converter with the id left out of the attributes
dataDowncastNoId(h, modelElement) ==
    LET emptyElement == newObject(h)
    IN Returning(createEmptyElement(h, emptyElement, "a", <<>>), Num(emptyElement))

\* conversion.for( 'dataDowncast' ): the view of a bookmark
dataDowncast(h, modelElement) ==
    LET emptyElement == newObject(h)
    IN Returning(createEmptyElement(h, emptyElement, "a",
                     <<[key |-> "id", val |-> modelGetAttribute(h, modelElement, "bookmarkId")]>>),
                 Num(emptyElement))

\* conversion.for( 'editingDowncast' ): the view of a bookmark, with its icon
editingDowncast(h, modelElement) ==
    LET id == modelGetAttribute(h, modelElement, "bookmarkId")
        icon == newObject(h)
        h1 == createUIElement(h, icon, "span",
                              <<[key |-> "class", val |-> Str("ck-bookmark__icon")]>>)
        containerElement == newObject(h1)
        h2 == createContainerElement(h1, containerElement, "a",
                  <<[key |-> "id", val |-> id], [key |-> "class", val |-> Str("ck-bookmark")]>>,
                  Arr(<<icon>>))
        h3 == [h2 EXCEPT !.bookmarkElements = MapSet(@, modelElement, id)]
    IN toWidget(h3, containerElement)

\* conversion.for( 'upcast' ): the model of a view element the matcher accepts;
\* null is returned for any other element
upcast(h, viewElement) ==
    IF upcastMatcher(h, viewElement, TRUE) = NullValue THEN Returning(h, NullValue)
    ELSE LET bookmarkId == getAttribute(h, viewElement, "id")
             m == newObject(h)
         IN Returning(createElement(h, m, "bookmark",
                                    <<[key |-> "bookmarkId", val |-> bookmarkId]>>),
                      Num(m))

(***************************************************************************)
(* Matching support.                                                       *)
(***************************************************************************)
PTrue == [kind |-> "true", str |-> "", matches |-> {}]
PString(s) == [kind |-> "string", str |-> s, matches |-> {}]
PRegExp(matches) == [kind |-> "RegExp", str |-> "", matches |-> matches]

\* isPatternMatched( pattern, item )
isPatternMatched(pattern, item) ==
    \/ pattern.kind = "true"
    \/ pattern.kind = "string" /\ pattern.str = item
    \/ pattern.kind = "RegExp" /\ item \in pattern.matches

\* TokenList._getTokensMatch( attributeKey, patternToken )
TL_getTokensMatch(toks, key, patternToken) ==
    LET pairs(list) == Match([i \in 1..Len(list) |-> <<key, list[i]>>])
    IN CASE patternToken.kind = "true" -> pairs(toks)
         [] patternToken.kind = "string" ->
                IF Range(Words(patternToken.str)) \subseteq Range(toks)
                THEN pairs(Words(patternToken.str)) ELSE None
         [] OTHER ->
                LET found == SelectSeq(toks, LAMBDA t : t \in patternToken.matches)
                IN IF found = <<>> THEN None ELSE pairs(found)

\* StylesMap._getTokensMatch( attributeKey, patternToken, patternValue )
SM_getTokensMatch(props, key, patternToken, patternValue) ==
    LET found == SelectSeq(props, LAMBDA d : /\ isPatternMatched(patternToken, d[1])
                                             /\ isPatternMatched(patternValue, d[2]))
    IN IF found = <<>> THEN None ELSE Match([i \in 1..Len(found) |-> <<key, found[i][1]>>])

V_getTokensMatch(v, key, patternToken, patternValue) ==
    IF v.kind = "TokenList" THEN TL_getTokensMatch(v.toks, key, patternToken)
    ELSE SM_getTokensMatch(v.props, key, patternToken, patternValue)

\* what one attribute contributes to one pattern: the pairs matched, or None
attributeMatch(key, value, pattern) ==
    IF IsString(value)
    THEN IF isPatternMatched(pattern[2], value.str) THEN Match(<< <<key>> >>) ELSE None
    ELSE V_getTokensMatch(value, key, pattern[2], IF pattern[3] = None THEN PTrue ELSE pattern[3])

\* the inner loop without the test of the excluded keys
RECURSIVE scanAttributesNoExclude(_, _, _, _)
scanAttributesNoExclude(entries, pattern, exclude, acc) ==
    IF entries = <<>> \/ acc.failed THEN acc
    ELSE LET key == entries[1].key
             found == attributeMatch(key, entries[1].val, pattern)
         IN IF ~isPatternMatched(pattern[1], key)
            THEN scanAttributesNoExclude(Tail(entries), pattern, exclude, acc)
            ELSE IF found # None
            THEN scanAttributesNoExclude(Tail(entries), pattern, exclude,
                                         [acc EXCEPT !.match = @ \o found.pairs, !.hasKey = TRUE,
                                                     !.hasValue = TRUE])
            ELSE IF pattern[1].kind # "RegExp"
            THEN [acc EXCEPT !.hasKey = TRUE, !.failed = TRUE]
            ELSE scanAttributesNoExclude(Tail(entries), pattern, exclude, [acc EXCEPT !.hasKey = TRUE])

\* the inner loop of _getAttributesMatch over the attributes, for one pattern:
\* acc is [match, hasKey, hasValue, failed]
RECURSIVE scanAttributes(_, _, _, _)
scanAttributes(entries, pattern, exclude, acc) ==
    IF entries = <<>> \/ acc.failed THEN acc
    ELSE LET key == entries[1].key
             found == attributeMatch(key, entries[1].val, pattern)
         IN IF key \in exclude \/ ~isPatternMatched(pattern[1], key)
            THEN scanAttributes(Tail(entries), pattern, exclude, acc)
            ELSE IF found # None
            THEN scanAttributes(Tail(entries), pattern, exclude,
                                [acc EXCEPT !.match = @ \o found.pairs, !.hasKey = TRUE, !.hasValue = TRUE])
            ELSE IF pattern[1].kind # "RegExp"
            THEN [acc EXCEPT !.hasKey = TRUE, !.failed = TRUE]
            ELSE scanAttributes(Tail(entries), pattern, exclude, [acc EXCEPT !.hasKey = TRUE])

\* the outer loop without the check that every pattern found a key and a value
RECURSIVE scanPatternsUnchecked(_, _, _, _)
scanPatternsUnchecked(entries, patterns, exclude, match) ==
    IF patterns = <<>> THEN Match(match)
    ELSE LET acc == scanAttributes(entries, patterns[1], exclude,
                                   [match |-> match, hasKey |-> FALSE, hasValue |-> FALSE,
                                    failed |-> FALSE])
         IN IF acc.failed THEN None
            ELSE scanPatternsUnchecked(entries, Tail(patterns), exclude, acc.match)

\* the outer loop over the patterns: the match, or None
RECURSIVE scanPatterns(_, _, _, _)
scanPatterns(entries, patterns, exclude, match) ==
    IF patterns = <<>> THEN Match(match)
    ELSE LET acc == scanAttributes(entries, patterns[1], exclude,
                                   [match |-> match, hasKey |-> FALSE, hasValue |-> FALSE,
                                    failed |-> FALSE])
         IN IF acc.failed \/ ~acc.hasKey \/ ~acc.hasValue THEN None
            ELSE scanPatterns(entries, Tail(patterns), exclude, acc.match)

_getAttributesMatch(h, e, patterns, exclude) ==
    Returning(h, scanPatterns(h.attrs[e], patterns, exclude, <<>>))

(***************************************************************************)
(* Actions: one per operation, applied to the current heap.                *)
(***************************************************************************)
SeqsUpTo(S, n) == UNION {[1..k -> S] : k \in 0..n}

Constructed == {n \in Nodes : name[n] # NoName}

\* e and the nodes above it
RECURSIVE AncestorsOrSelf(_, _)
AncestorsOrSelf(par, e) == IF e = Null THEN {} ELSE {e} \cup AncestorsOrSelf(par, par[e])

\* the caller's contract for inserted items: constructed nodes, none of them the
\* receiver or a node above it
Insertable(e, items) ==
    /\ Range(items) \subseteq Constructed
    /\ Range(items) \cap AncestorsOrSelf(parent, e) = {}

Distinct(items) == \A i, j \in 1..Len(items) : i # j => items[i] # items[j]

Apply(h, op, this) ==
    /\ name' = h.name
    /\ attrs' = h.attrs
    /\ children' = h.children
    /\ parent' = h.parent
    /\ bookmarkElements' = h.bookmarkElements
    /\ call' = [op |-> op, this |-> this, ret |-> h.ret, fired |-> Len(h.log)]

Init ==
    /\ name = [n \in Nodes |-> NoName]
    /\ attrs = [n \in Nodes |-> <<>>]
    /\ children = [n \in Nodes |-> <<>>]
    /\ parent = [n \in Nodes |-> Null]
    /\ bookmarkElements = <<>>
    /\ call = [op |-> "none", this |-> Null, ret |-> None, fired |-> 0]

\* objects are allocated in the order of their numbers
Construct(e, elementName, attributes, kids) ==
    /\ e \notin Constructed
    /\ \A n \in Nodes : n < e => n \in Constructed
    /\ Apply(construct(Heap, e, elementName, attributes, kids), "constructor", e)

InsertChild(e, index, items) ==
    /\ e \in Constructed
    /\ index \in 0..Len(children[e])
    /\ Insertable(e, items)
    /\ Apply(_insertChild(Heap, e, index, items), "_insertChild", e)

AppendChild(e, items) ==
    /\ e \in Constructed
    /\ Insertable(e, items)
    /\ Apply(_appendChild(Heap, e, items), "_appendChild", e)

RemoveChildren(e, index, howMany) ==
    /\ e \in Constructed
    /\ index \in 0..Len(children[e])
    /\ howMany \in 0..(Len(children[e]) - index)
    /\ Apply(_removeChildren(Heap, e, index, howMany), "_removeChildren", e)

SetAttribute(e, key, value, reset) ==
    /\ e \in Constructed
    /\ Apply(_setAttribute(Heap, e, key, value, reset), "_setAttribute", e)

RemoveAttribute(e, key, tokens) ==
    /\ e \in Constructed
    /\ Apply(_removeAttribute(Heap, e, key, tokens), "_removeAttribute", e)

AddClass(e, className) ==
    /\ e \in Constructed
    /\ Apply(_addClass(Heap, e, className), "_addClass", e)

RemoveClass(e, className) ==
    /\ e \in Constructed
    /\ Apply(_removeClass(Heap, e, className), "_removeClass", e)

SetStyle(e, property, value) ==
    /\ e \in Constructed
    /\ Apply(_setStyle(Heap, e, property, value), "_setStyle", e)

RemoveStyle(e, property) ==
    /\ e \in Constructed
    /\ Apply(_removeStyle(Heap, e, property), "_removeStyle", e)

\* The other element of a call is the caller's: it is constructed for the call
\* in the object Other and not followed after the call returns.
Other == 2

WithOther(h, other) == construct(h, Other, other.name, other.entries, None)

Release(h, n) == [h EXCEPT !.name[n] = NoName, !.attrs[n] = <<>>]

MergeAttributesFrom(e, other) ==
    /\ e \in Constructed \ {Other}
    /\ Apply(Release(_mergeAttributesFrom(WithOther(Heap, other), e, Other), Other),
             "_mergeAttributesFrom", e)

SubtractAttributesOf(e, other) ==
    /\ e \in Constructed \ {Other}
    /\ Apply(Release(_subtractAttributesOf(WithOther(Heap, other), e, Other), Other),
             "_subtractAttributesOf", e)

\* the map m of the object n when the model goes on with that object as e
movedTo(e, n, m) ==
    [i \in 1..Len(m) |-> IF m[i].val.ref.owner = n THEN [m[i] EXCEPT !.val.ref.owner = e]
                          ELSE m[i]]

\* e._clone(): the clone is a new object; the model goes on with the clone in
\* the place of e
Clone(e) ==
    /\ e \in Constructed \ {Other}
    /\ LET h == _clone(Heap, e, Other)
       IN Apply(Release([h EXCEPT !.name[e] = h.name[Other],
                                  !.attrs[e] = movedTo(e, Other, h.attrs[Other])], Other),
                "_clone", e)

(***************************************************************************)
(* The tree: construction with children and the child operations.          *)
(***************************************************************************)
\* the elements whose child operations are called; the other nodes are only
\* passed as items
Receivers == Constructed \cap {1, 2}

\* the nodes of the tree
TreeNodes == {1, 2, 3, 4}

\* the lists a caller may insert into e
InsertableLists(e) == SeqsUpTo(Constructed \ AncestorsOrSelf(parent, e), MaxItems)

TreeNext ==
    \/ \E e \in TreeNodes \ Constructed :
           \E kids \in {None} \cup {Arr(items) : items \in SeqsUpTo(Constructed, MaxItems)} :
               Construct(e, "div", <<>>, kids)
    \/ \E e \in Receivers : \E index \in 0..Len(children[e]) : \E items \in InsertableLists(e) :
           InsertChild(e, index, items)
    \/ \E e \in Receivers : \E items \in InsertableLists(e) :
           AppendChild(e, items)
    \/ \E e \in Receivers : \E index \in 0..Len(children[e]) :
           \E howMany \in 0..(Len(children[e]) - index) :
               RemoveChildren(e, index, howMany)

SpecTree == Init /\ [][TreeNext]_vars

\* the heap a second call of a sequence starts from
Next2(h) == [h EXCEPT !.log = <<>>, !.ret = None]

\* the places a node occupies in the children lists
Places(n) == {pl \in Nodes \X (1..Cardinality(Nodes) * 2) :
                 pl[2] <= Len(children[pl[1]]) /\ children[pl[1]][pl[2]] = n}

\* C3: after any sequence of constructions with children, _insertChild,
\* _appendChild and _removeChildren, every node occurs at most once in all the
\* children lists together, node.parent is E exactly when the node is in E's
\* children, and it is null when the node is in no list.
C3_TreeInvariant ==
    \A n \in Nodes :
        /\ Cardinality(Places(n)) <= 1
        /\ \A e \in Nodes : parent[n] = e <=> n \in Range(children[e])
        /\ parent[n] = Null <=> Places(n) = {}

\* an insertion has just moved a node out of another list: the call notified
\* the receiver and the old parent, and the receiver holds some children
C3_Witness ==
    /\ call.op \in {"_insertChild", "_appendChild"}
    /\ call.fired >= 2
    /\ Len(children[call.this]) >= 2

\* C7: for any element E, index i in 0..childCount and list of n items,
\* children of E or of another element included, after E._insertChild(i, items)
\* the k-th item is E's child at position i + k and the call returns n.
\* (A list of n items names n different nodes.)
C7_ItemsAtIndex ==
    \A e \in Receivers : \A index \in 0..Len(children[e]) : \A items \in InsertableLists(e) :
        Distinct(items) =>
        LET h == _insertChild(Heap, e, index, items)
        IN /\ h.ret = Num(Len(items))
           /\ \A k \in 0..(Len(items) - 1) :
                  /\ index + k + 1 <= Len(h.children[e])
                  /\ h.children[e][index + k + 1] = items[k + 1]

\* C8: for any element E, valid index i and list of n detached nodes,
\* E._insertChild(i, items) followed by E._removeChildren(i, n) returns the
\* inserted nodes in their order, leaves each with a null parent and leaves
\* E's children as they were before the insertion.  (A list of n detached
\* nodes names n different nodes.)
C8_InsertRemoveRoundTrip ==
    \A e \in Receivers : \A index \in 0..Len(children[e]) : \A items \in InsertableLists(e) :
        (Distinct(items) /\ \A n \in Range(items) : parent[n] = Null) =>
            LET h1 == _insertChild(Heap, e, index, items)
                h2 == _removeChildren(Next2(h1), e, index, Len(items))
            IN /\ h1.ret = Num(Len(items))
               /\ h2.ret = Arr(items)
               /\ \A n \in Range(items) : h2.parent[n] = Null
               /\ h2.children[e] = children[e]

\* several children inserted earlier have just been removed together from an
\* element that keeps other children
C8_Witness ==
    /\ call.op = "_removeChildren"
    /\ call.ret.kind = "array"
    /\ Len(call.ret.toks) >= 2
    /\ \A n \in Range(call.ret.toks) : parent[n] = Null
    /\ children[call.this] # <<>>

(***************************************************************************)
(* Attributes: one element, constructed from attributes in their different *)
(* forms and changed by the attribute operations.                          *)
(***************************************************************************)
This == 1

ElementNames == {"a", "div"}

Entry(key, val) == [key |-> key, val |-> val]

\* what a caller passes to the constructor under a key: strings, values that
\* are already structured (of the key's kind or of the other one), null
ConstructorEntries ==
    {Entry("class", v) : v \in {Str("x y"), Str(""), TokenList(<<"y", "x">>)}}
    \cup {Entry("style", v) : v \in {Str("color:red;"), StylesMap(<< <<"color", "blue">> >>),
                                      TokenList(<<"x">>)}}
    \cup {Entry("rel", v) : v \in {Str("x y"), Str("y x"), TokenList(<<"x">>), NullValue}}

\* a record, a list of pairs or a map: the entries in order, a list of pairs
\* possibly naming a key twice
ConstructorAttributes == SeqsUpTo(ConstructorEntries, 2)

\* the other elements of _mergeAttributesFrom and _subtractAttributesOf
OtherEntries ==
    {Entry("class", Str("x")), Entry("class", Str("x y")),
     Entry("style", Str("color:red;")), Entry("style", Str("color:blue;")),
     Entry("rel", Str("x y")), Entry("rel", Str("y"))}

OtherElements ==
    {[name |-> n, entries |-> en] : n \in ElementNames, en \in SeqsUpTo(OtherEntries, 1)}
    \cup {[name |-> n, entries |-> en] :
             n \in ElementNames,
             en \in {<<Entry("class", Str("x")), Entry("style", Str("color:red;"))>>,
                     <<Entry("rel", Str("y x")), Entry("class", Str("y"))>>}}

TokenValues == {Str("x"), Str("y"), Str("x y"), Str("y x")}

\* the ( key, value, reset ) a caller passes to _setAttribute
SetAttributeInputs ==
    ({"class", "rel"} \X TokenValues \X {TRUE, FALSE})
    \cup ({"class"} \X {Str("")} \X {TRUE})
    \cup ({"class"} \X {Arr(<<"y", "x">>)} \X {FALSE})
    \cup ({"style"} \X {Str("color:red;"), Str("")} \X {TRUE})
    \cup ({"style"} \X {Arr(<<"color", "blue">>), Obj(<< <<"color", "red">> >>)} \X {FALSE})

\* the ( key, tokens ) a caller passes to _removeAttribute
RemoveAttributeInputs ==
    ({"class", "style", "rel"} \X {None})
    \cup ({"class", "rel"} \X {Str("x"), Str("x y"), Arr(<<"y">>)})
    \cup ({"style"} \X {Str("color"), Arr(<<"color">>)})

ClassNames == {Str("x"), Str("y x"), Arr(<<"x", "y">>), Arr(<<>>)}

StyleInputs ==
    {<<Str("color"), Str("red")>>, <<Str("color"), Str("blue")>>,
     <<Obj(<< <<"color", "red">> >>), None>>}

StyleNames == {Str("color"), Arr(<<"color">>)}

AttrsNext ==
    \/ \E elementName \in ElementNames : \E attributes \in ConstructorAttributes :
           /\ This \notin Constructed
           /\ Apply(construct(Heap, This, elementName, attributes, None), "constructor", This)
    \/ \E in \in SetAttributeInputs : SetAttribute(This, in[1], in[2], in[3])
    \/ \E in \in RemoveAttributeInputs : RemoveAttribute(This, in[1], in[2])
    \/ \E className \in ClassNames : AddClass(This, className)
    \/ \E className \in ClassNames : RemoveClass(This, className)
    \/ \E in \in StyleInputs : SetStyle(This, in[1], in[2])
    \/ \E property \in StyleNames : RemoveStyle(This, property)
    \/ \E other \in OtherElements : MergeAttributesFrom(This, other)
    \/ \E other \in OtherElements : SubtractAttributesOf(This, other)
    \/ Clone(This)

SpecAttrs == Init /\ [][AttrsNext]_vars

\* the elements This is compared with: every element the constructor inputs give
ComparedElements ==
    {[name |-> n, entries |-> en] : n \in ElementNames, en \in ConstructorAttributes}

\* C1: for all elements A and B (over names, plain attributes, class tokens,
\* style declarations and, on 'a' elements, rel tokens), if A.isSimilar( B )
\* then A.getIdentity() equals B.getIdentity().
C1_SimilarSameIdentity ==
    This \in Constructed =>
        \A other \in ComparedElements :
            LET h == WithOther(Heap, other)
            IN (isSimilar(h, This, Other) \/ isSimilar(h, Other, This)) =>
                   getIdentity(h, This) = getIdentity(h, Other)

\* C2: for all elements A and B reachable through the constructor and the
\* mutation operations, A.getIdentity() = B.getIdentity() implies
\* A.isSimilar( B ).
C2_SameIdentitySimilar ==
    This \in Constructed =>
        \A other \in ComparedElements :
            LET h == WithOther(Heap, other)
            IN getIdentity(h, This) = getIdentity(h, Other) =>
                   (isSimilar(h, This, Other) /\ isSimilar(h, Other, This))

\* C9: when _mergeAttributesFrom( other ) fails its _canMergeAttributesFrom
\* check, or _subtractAttributesOf( other ) fails its _hasAttributesMatching
\* check, the call returns false, fires no change notification and leaves the
\* attributes of both elements as they were; when the check passes the call
\* returns true.
C9_FailedCheckChangesNothing ==
    This \in Constructed =>
        \A other \in OtherElements :
            LET h == WithOther(Heap, other)
                merged == _mergeAttributesFrom(h, This, Other)
                subtracted == _subtractAttributesOf(h, This, Other)
            IN /\ IF _canMergeAttributesFrom(h, This, Other)
                  THEN merged.ret = Bool(TRUE)
                  ELSE /\ merged.ret = Bool(FALSE)
                       /\ merged.log = <<>>
                       /\ merged.attrs = h.attrs
               /\ IF _hasAttributesMatching(h, This, Other)
                  THEN subtracted.ret = Bool(TRUE)
                  ELSE /\ subtracted.ret = Bool(FALSE)
                       /\ subtracted.log = <<>>
                       /\ subtracted.attrs = h.attrs

\* a merge into an element that holds attributes has just been refused
C9_Witness ==
    /\ call.op = "_mergeAttributesFrom"
    /\ call.ret = Bool(FALSE)
    /\ call.fired = 0
    /\ Len(attrs[This]) >= 2

\* C10: after any sequence of construction (from a record, a list of pairs or
\* a map, structured values included), _setAttribute, _removeAttribute,
\* _addClass, _setStyle, _mergeAttributesFrom, _subtractAttributesOf and
\* _clone, 'class' holds a token set whenever present, 'style' a style map,
\* 'rel' a token set exactly on the elements named 'a', and every other key a
\* plain string.
C10_AttributeKinds ==
    \A e \in Constructed : \A i \in 1..Len(attrs[e]) :
        LET key == attrs[e][i].key
            kind == attrs[e][i].val.kind
        IN /\ \A j \in 1..Len(attrs[e]) : i # j => attrs[e][j].key # key
           /\ CASE key = "class" -> kind = "TokenList"
                [] key = "style" -> kind = "StylesMap"
                [] key = "rel" -> (kind = "TokenList" <=> name[e] = "a")
                                  /\ kind \in {"TokenList", "string"}
                [] OTHER -> kind = "string"

\* an 'a' element holding all three structured attributes has just been cloned
C10_Witness ==
    /\ call.op = "_clone"
    /\ name[This] = "a"
    /\ MapHas(attrs[This], "class") /\ MapHas(attrs[This], "style") /\ MapHas(attrs[This], "rel")

(***************************************************************************)
(* Change notifications: one element changed by the attribute operations   *)
(* and the child operations, with two more elements to be its children.    *)
(***************************************************************************)
ChildElements == {3, 4}

ChangeAttributes == {<<>>, <<Entry("class", Str("x y"))>>, <<Entry("rel", Str("x"))>>}

ChangeSetInputs ==
    {<<"class", Str("x"), FALSE>>, <<"class", Str("y x"), TRUE>>,
     <<"style", Str("color:red;"), TRUE>>, <<"rel", Str("x"), TRUE>>}

ChangeRemoveInputs ==
    {<<"class", None>>, <<"class", Str("x")>>, <<"style", None>>, <<"rel", Str("x")>>}

ChangeOthers ==
    {[name |-> "a", entries |-> <<Entry("class", Str("x"))>>],
     [name |-> "a", entries |-> <<Entry("style", Str("color:blue;"))>>],
     [name |-> "a", entries |-> <<Entry("rel", Str("x")), Entry("class", Str("y"))>>],
     [name |-> "div", entries |-> <<>>]}

\* the lists of child elements a caller may insert
ChildLists == SeqsUpTo(Constructed \cap ChildElements, MaxItems)

ChangeNext ==
    \/ \E attributes \in ChangeAttributes :
           /\ This \notin Constructed
           /\ Apply(construct(Heap, This, "a", attributes, None), "constructor", This)
    \/ \E e \in ChildElements \ Constructed :
           /\ This \in Constructed
           /\ Apply(construct(Heap, e, "div", <<>>, None), "constructor", e)
    \/ \E in \in ChangeSetInputs : SetAttribute(This, in[1], in[2], in[3])
    \/ \E in \in ChangeRemoveInputs : RemoveAttribute(This, in[1], in[2])
    \/ \E other \in ChangeOthers : MergeAttributesFrom(This, other)
    \/ \E other \in ChangeOthers : SubtractAttributesOf(This, other)
    \/ \E index \in 0..Len(children[This]) : \E items \in ChildLists :
           InsertChild(This, index, items)
    \/ \E index \in 0..Len(children[This]) : \E howMany \in 0..(Len(children[This]) - index) :
           RemoveChildren(This, index, howMany)

SpecChange == Init /\ [][ChangeNext]_vars

\* the first notification of the call made on heap h is of the given kind, has
\* e as its subject and finds e's attributes and children as they are now
FiresFirst(h, type, e) ==
    /\ h.log # <<>>
    /\ h.log[1] = [type |-> type, node |-> e, attrs |-> attrs[e], children |-> children[e]]

\* C4: every mutating operation (_setAttribute, _removeAttribute,
\* _insertChild, _removeChildren and a successful _mergeAttributesFrom or
\* _subtractAttributesOf) fires a change notification with this element as
\* its subject and the kind of the operation ('attributes' or 'children')
\* before any of the element's attributes or children change: at the first
\* notification of the call both equal their values before the call.
C4_NotifiedBeforeChange ==
    This \in Constructed =>
        /\ \A in \in ChangeSetInputs :
               FiresFirst(_setAttribute(Heap, This, in[1], in[2], in[3]), "attributes", This)
        /\ \A in \in ChangeRemoveInputs :
               FiresFirst(_removeAttribute(Heap, This, in[1], in[2]), "attributes", This)
        /\ \A index \in 0..Len(children[This]) : \A items \in ChildLists :
               FiresFirst(_insertChild(Heap, This, index, items), "children", This)
        /\ \A index \in 0..Len(children[This]) : \A howMany \in 0..(Len(children[This]) - index) :
               FiresFirst(_removeChildren(Heap, This, index, howMany), "children", This)
        /\ \A other \in ChangeOthers :
               LET h == WithOther(Heap, other)
                   merged == _mergeAttributesFrom(h, This, Other)
                   subtracted == _subtractAttributesOf(h, This, Other)
               IN /\ merged.ret = Bool(TRUE) => FiresFirst(merged, "attributes", This)
                  /\ subtracted.ret = Bool(TRUE) => FiresFirst(subtracted, "attributes", This)

\* a merge has just been applied to an element that has attributes and
\* children, with more than one notification on the way
C4_Witness ==
    /\ call.op = "_mergeAttributesFrom"
    /\ call.ret = Bool(TRUE)
    /\ call.fired >= 2
    /\ children[This] # <<>>
    /\ Len(attrs[This]) >= 2

(***************************************************************************)
(* Matching: one element and the queries of a matcher.                     *)
(***************************************************************************)
MatchEntries ==
    {Entry("id", Str("x")), Entry("id", Str("z")), Entry("href", Str("z")),
     Entry("class", Str("x y")), Entry("class", Str("y")),
     Entry("style", Str("color:red;")), Entry("style", Str("color:blue;"))}

MatchAttributes == SeqsUpTo(MatchEntries, 2)

\* NormalizedPropertyPattern: [ key pattern, token pattern, value pattern? ]
Patterns ==
    {<<PString("id"), PString("x"), None>>,
     <<PString("id"), PString("z"), None>>,
     <<PString("class"), PString("x"), None>>,
     <<PString("href"), PTrue, None>>,
     <<PRegExp({"id", "class"}), PString("x"), None>>,
     <<PRegExp({"id", "href"}), PString("z"), None>>,
     <<PString("style"), PString("color"), PString("red")>>,
     <<PRegExp({"style", "class"}), PRegExp({"color", "y"}), PTrue>>}

Excludes == {{}, {"id"}}

GetAttributesMatch(e, patterns, exclude) ==
    /\ e \in Constructed
    /\ Apply(_getAttributesMatch(Heap, e, patterns, exclude), "_getAttributesMatch", e)

MatchNext ==
    \/ \E attributes \in MatchAttributes :
           /\ This \notin Constructed
           /\ Apply(construct(Heap, This, "div", attributes, None), "constructor", This)
    \/ \E patterns \in SeqsUpTo(Patterns, MaxPatterns) : \E exclude \in Excludes :
           GetAttributesMatch(This, patterns, exclude)

SpecMatch == Init /\ [][MatchNext]_vars

\* the attributes of This, not excluded, whose key the pattern's key matches
KeyHits(pattern, exclude) ==
    {i \in 1..Len(attrs[This]) :
        /\ attrs[This][i].key \notin exclude
        /\ isPatternMatched(pattern[1], attrs[This][i].key)}

\* those of them whose value or tokens the pattern matches too
ValueHits(pattern, exclude) ==
    {i \in KeyHits(pattern, exclude) :
        attributeMatch(attrs[This][i].key, attrs[This][i].val, pattern) # None}

\* the pairs of the attributes that match the pattern in key and value, in the
\* order of the attributes
RECURSIVE HitPairs(_, _, _)
HitPairs(entries, pattern, exclude) ==
    IF entries = <<>> THEN <<>>
    ELSE LET found == attributeMatch(entries[1].key, entries[1].val, pattern)
             here == IF /\ entries[1].key \notin exclude
                        /\ isPatternMatched(pattern[1], entries[1].key)
                        /\ found # None
                     THEN found.pairs ELSE <<>>
         IN here \o HitPairs(Tail(entries), pattern, exclude)

\* C5 as claimed: with a pattern whose key pattern is a regular expression
\* that matches an attribute key, where no matching attribute's value (or
\* token) matches the value pattern, _getAttributesMatch returns a match
\* holding only the key (no token) instead of undefined.
C5_RegExpKeyAlone ==
    This \in Constructed =>
        \A pattern \in Patterns : \A exclude \in Excludes :
            (/\ pattern[1].kind = "RegExp"
             /\ KeyHits(pattern, exclude) # {}
             /\ ValueHits(pattern, exclude) = {}) =>
                LET ret == _getAttributesMatch(Heap, This, <<pattern>>, exclude).ret
                IN /\ ret # None
                   /\ \A i \in 1..Len(ret.pairs) : Len(ret.pairs[i]) = 1

\* C5 amended: with a pattern whose key pattern is a regular expression that
\* matches an attribute key, where no matching attribute's value (or token)
\* matches the value pattern, _getAttributesMatch returns undefined, wherever
\* the pattern stands in the list; the regular expression only lets the scan
\* go past an attribute whose key matches and whose value does not, so that a
\* list of that one pattern returns the pairs of the attributes matching it in
\* key and value whenever there is such an attribute.
C5_RegExpKeyNeedsValue ==
    This \in Constructed =>
        \A patterns \in SeqsUpTo(Patterns, MaxPatterns) : \A exclude \in Excludes :
            LET ret == _getAttributesMatch(Heap, This, patterns, exclude).ret
            IN /\ \A i \in 1..Len(patterns) :
                      (/\ patterns[i][1].kind = "RegExp"
                       /\ KeyHits(patterns[i], exclude) # {}
                       /\ ValueHits(patterns[i], exclude) = {}) => ret = None
               /\ (/\ Len(patterns) = 1
                   /\ patterns[1][1].kind = "RegExp"
                   /\ ValueHits(patterns[1], exclude) # {}) =>
                      ret = Match(HitPairs(attrs[This], patterns[1], exclude))

\* a query has just returned undefined on an element where a pattern with a
\* regular expression for the key finds a key and no value
C5_Witness ==
    /\ call.op = "_getAttributesMatch"
    /\ call.ret = None
    /\ \E pattern \in Patterns :
           /\ pattern[1].kind = "RegExp"
           /\ KeyHits(pattern, {}) # {}
           /\ ValueHits(pattern, {}) = {}
           /\ _getAttributesMatch(Heap, This, <<pattern>>, {}).ret = call.ret

\* C6: with a pattern whose key pattern is an exact string,
\* _getAttributesMatch returns undefined whenever the element has no attribute
\* with that key that is not excluded, or has it with a value or tokens the
\* value pattern does not match, whatever the other patterns of the list
\* matched.
C6_ExactKeyNeedsValue ==
    This \in Constructed =>
        \A patterns \in SeqsUpTo(Patterns, MaxPatterns) : \A exclude \in Excludes :
            \A i \in 1..Len(patterns) :
                (patterns[i][1].kind = "string" /\ ValueHits(patterns[i], exclude) = {}) =>
                    _getAttributesMatch(Heap, This, patterns, exclude).ret = None

\* a query has just returned undefined on an element where one pattern
\* matches an attribute and another, with an exact key, finds the key and a
\* value that does not match
C6_Witness ==
    /\ call.op = "_getAttributesMatch"
    /\ call.ret = None
    /\ \E first \in Patterns : \E second \in Patterns :
           /\ ValueHits(first, {}) # {}
           /\ second[1].kind = "string"
           /\ KeyHits(second, {}) # {}
           /\ ValueHits(second, {}) = {}
           /\ _getAttributesMatch(Heap, This, <<first, second>>, {}).ret = call.ret

(***************************************************************************)
(* Ownership: two elements that live on, the second made from the first by *)
(* the constructor or by _clone(), and attribute calls on both.            *)
(***************************************************************************)
OwnElements == {1, 2}

OwnAttributes ==
    { <<>>,
      <<Entry("style", Str("color:red;")), Entry("class", Str("x")), Entry("rel", Str("x"))>> }

\* the calls that change class, style or rel: [op, args]
OwnMutations ==
    { [op |-> "_addClass", args |-> <<Str("x")>>],
      [op |-> "_removeClass", args |-> <<Str("x")>>],
      [op |-> "_setStyle", args |-> <<Str("color"), Str("red")>>],
      [op |-> "_removeStyle", args |-> <<Str("color")>>],
      [op |-> "_setAttribute", args |-> <<"rel", Str("x"), FALSE>>],
      [op |-> "_removeAttribute", args |-> <<"rel", Str("x")>>] }

mutated(h, e, m) ==
    CASE m.op = "_addClass" -> _addClass(h, e, m.args[1])
      [] m.op = "_removeClass" -> _removeClass(h, e, m.args[1])
      [] m.op = "_setStyle" -> _setStyle(h, e, m.args[1], m.args[2])
      [] m.op = "_removeStyle" -> _removeStyle(h, e, m.args[1])
      [] m.op = "_setAttribute" -> _setAttribute(h, e, m.args[1], m.args[2], m.args[3])
      [] m.op = "_removeAttribute" -> _removeAttribute(h, e, m.args[1], m.args[2])

Mutate(e, m) ==
    /\ e \in Constructed
    /\ Apply(mutated(Heap, e, m), m.op, e)

\* new Element( document, elementName, o._attrs )
ConstructFrom(e, o, elementName) ==
    /\ e \notin Constructed
    /\ o \in Constructed
    /\ Apply(construct(Heap, e, elementName, attrs[o], None), "constructor", e)

\* o._clone(), the clone being the new object c
CloneAs(c, o) ==
    /\ c \notin Constructed
    /\ o \in Constructed
    /\ Apply(Returning(_clone(Heap, o, c), Num(c)), "_clone", o)

MergeAttributesOf(e, o) ==
    /\ e \in Constructed
    /\ o \in Constructed \ {e}
    /\ Apply(_mergeAttributesFrom(Heap, e, o), "_mergeAttributesFrom", e)

OwnNext ==
    \/ \E a \in OwnAttributes : Construct(1, "a", a, None)
    \/ \E elementName \in ElementNames : ConstructFrom(2, 1, elementName)
    \/ CloneAs(2, 1)
    \/ \E e, o \in OwnElements : MergeAttributesOf(e, o)
    \/ \E e \in OwnElements, m \in OwnMutations : Mutate(e, m)

SpecOwn == Init /\ [][OwnNext]_vars

\* what the claim reads of an element: getAttribute, hasClass and hasStyle
Observed(h, o) ==
    [attribute |-> [key \in {"class", "style", "rel"} |-> getAttribute(h, o, key)],
     classes |-> {t \in {"x", "y"} : hasClass(h, o, <<t>>)},
     styles |-> {p \in {"color", "margin"} : hasStyle(h, o, <<p>>)}]

\* the objects held by the map m
Objects(m) == {m[i].val.ref : i \in 1..Len(m)} \ {NoRef}

\* C11: no TokenList or StylesMap object is held by two elements, and a call
\* that changes the class, the style or rel of one element leaves what
\* getAttribute, hasClass and hasStyle return for every other element as it was.
C11_ValuesNotShared ==
    /\ \A e, o \in Constructed : e # o => Objects(attrs[e]) \cap Objects(attrs[o]) = {}
    /\ \A e \in Constructed, m \in OwnMutations :
           LET h == mutated(Heap, e, m)
           IN \A o \in Constructed \ {e} : Observed(h, o) = Observed(Heap, o)

\* one element was made from the other and still has the class x after
\* _removeClass( 'x' ) was called on the other one
C11_Witness ==
    /\ call.op = "_removeClass"
    /\ {1, 2} \subseteq Constructed
    /\ \E e \in {1, 2} :
           /\ call.this = e
           /\ ~hasClass(Heap, e, <<"x">>)
           /\ hasClass(Heap, 3 - e, <<"x">>)

(***************************************************************************)
(* Deep clones: a tree of up to three elements, _clone( true ) of one of   *)
(* its elements and child operations on the nodes of the clone.            *)
(***************************************************************************)
Originals == {1, 2, 3}

CloneAttributes == { <<>>, <<Entry("class", Str("y x"))>> }

\* e and the nodes below it
RECURSIVE Subtree(_, _)
Subtree(kids, e) == {e} \cup UNION {Subtree(kids, kids[e][i]) : i \in 1..Len(kids[e])}

\* the nodes made by clones
Clones == Constructed \ Originals

\* e._clone( true ) once the tree is built: the clone has the number returned
DeepClone(e) ==
    /\ Originals \subseteq Constructed
    /\ e \in Constructed
    /\ Cardinality(Subtree(children, e)) <= Cardinality(Nodes \ Constructed)
    /\ Apply(_cloneDeep(Heap, e), "_clone", e)

CloneNext ==
    \/ \E e \in Originals \ Constructed, a \in CloneAttributes :
           \E kids \in {None} \cup {Arr(items) : items \in SeqsUpTo(Constructed, MaxItems)} :
               /\ kids # None => Distinct(kids.toks)
               /\ Construct(e, "div", a, kids)
    \/ \E e \in Constructed : DeepClone(e)
    \/ \E r \in Clones : \E index \in 0..Len(children[r]) : \E items \in SeqsUpTo(Clones, 1) :
           InsertChild(r, index, items)
    \/ \E r \in Clones : \E index \in 0..Len(children[r]) :
           \E howMany \in 0..(Len(children[r]) - index) :
               RemoveChildren(r, index, howMany)

SpecClone == Init /\ [][CloneNext]_vars

\* c in the heap h is a copy of the tree of e as it is now: new objects with
\* the same identity, the same number of children in the same order, each
\* child's parent the copy of its parent
RECURSIVE CopyOf(_, _, _)
CopyOf(h, e, c) ==
    /\ c \notin Constructed
    /\ getIdentity(h, c) = getIdentity(Heap, e)
    /\ Len(h.children[c]) = Len(children[e])
    /\ \A i \in 1..Len(children[e]) :
           /\ h.parent[h.children[c][i]] = c
           /\ CopyOf(h, children[e][i], h.children[c][i])

\* the nodes that exist now have in h the children and the parent they have now
Untouched(h) ==
    \A n \in Constructed : h.children[n] = children[n] /\ h.parent[n] = parent[n]

\* C12: _clone( true ) returns a tree of new objects, one for each node of the
\* original, with the original's identity, child order and parent links, and
\* neither the clone nor a later _insertChild or _removeChildren on a node of
\* the clone changes the children or the parent of a node that existed before.
C12_DeepCloneIsSeparate ==
    \A e \in Constructed :
        Cardinality(Subtree(children, e)) <= Cardinality(Nodes \ Constructed) =>
            LET h == Next2(_cloneDeep(Heap, e))
                c == _cloneDeep(Heap, e).ret.n
                new == {n \in Nodes : h.name[n] # NoName} \ Constructed
            IN /\ CopyOf(h, e, c)
               /\ Cardinality(new) = Cardinality(Subtree(children, e))
               /\ new = Subtree(h.children, c)
               /\ Untouched(h)
               /\ \A r \in new : \A index \in 0..Len(h.children[r]) :
                      /\ \A items \in SeqsUpTo(new, MaxItems) :
                             Range(items) \cap AncestorsOrSelf(h.parent, r) = {} =>
                                 Untouched(_insertChild(h, r, index, items))
                      /\ \A howMany \in 0..(Len(h.children[r]) - index) :
                             Untouched(_removeChildren(h, r, index, howMany))

\* _clone( true ) has just returned the clone of an element with two children
C12_Witness ==
    /\ call.op = "_clone"
    /\ Len(children[call.this]) = 2
    /\ Len(children[call.ret.n]) = 2
    /\ Range(children[call.ret.n]) \cap Range(children[call.this]) = {}
    /\ \A i \in 1..2 : name[children[call.ret.n][i]] # NoName

(***************************************************************************)
(* Claims about the attribute operations, checked on the element This.     *)
(***************************************************************************)
\* the tokens or properties of a structured value, in their order
Contents(v) == IF v.kind = "TokenList" THEN v.toks ELSE v.props

\* the tokens a call names: a string names its words for a token list and
\* itself for a style
Named(elementName, key, tokens) ==
    IF ~IsString(tokens) THEN Range(tokens.toks)
    ELSE IF usesTokenList(elementName, key) THEN Range(Words(tokens.str))
    ELSE {tokens.str}

\* a structured value's contents without the named tokens or properties
Without(v, named) ==
    LET KeptToken(t) == t \notin named
        KeptProperty(p) == p[1] \notin named
    IN IF v.kind = "TokenList" THEN SelectSeq(v.toks, KeptToken)
       ELSE SelectSeq(v.props, KeptProperty)

\* C13: _removeAttribute( key, tokens ) with tokens and a structured key that is
\* present removes the named tokens only and deletes the key exactly when
\* nothing is left of the value; otherwise it deletes the whole key; the other
\* attributes stay, and it returns true exactly when the key was present before
\* the call and is absent after it.
C13_RemoveAttribute ==
    This \in Constructed =>
        \A in \in RemoveAttributeInputs \cup {<<"class", Arr(<<>>)>>} :
            LET key == in[1]
                tokens == in[2]
                h == _removeAttribute(Heap, This, key, tokens)
                before == attrs[This]
                after == h.attrs[This]
                structured == usesStylesMap(name[This], key) \/ usesTokenList(name[This], key)
            IN /\ MapDelete(after, key) = MapDelete(before, key)
               /\ IF tokens # None /\ structured /\ MapHas(before, key)
                  THEN LET rest == Without(MapGet(before, key),
                                           Named(name[This], key, tokens))
                       IN /\ MapHas(after, key) <=> rest # <<>>
                          /\ MapHas(after, key) => Contents(MapGet(after, key)) = rest
                  ELSE ~MapHas(after, key)
               /\ h.ret = Bool(MapHas(before, key) /\ ~MapHas(after, key))

\* _removeAttribute has returned true on an 'a' element, which has no rel any
\* more and still has classes
C13_Witness ==
    /\ call.op = "_removeAttribute"
    /\ call.ret = Bool(TRUE)
    /\ name[This] = "a"
    /\ ~MapHas(attrs[This], "rel")
    /\ MapHas(attrs[This], "class") /\ MapGet(attrs[This], "class").toks # <<>>

\* the class names hasClass is asked about
ClassTokens == {"x", "y", "z"}

\* the classes of This as hasClass tells them
ClassSet(h) == {t \in ClassTokens : hasClass(h, This, <<t>>)}

\* the tokens of a reference set that a value names
RefTokens(v) == (IF IsString(v) THEN Range(Words(v.str)) ELSE Range(v.toks)) \ {""}

\* C14: hasClass( t ) and hasAttribute( 'class', t ) agree and tell the tokens
\* of a reference set: _setAttribute( 'class', s, true ) replaces the set by
\* the tokens of s, _addClass unites it with the tokens given and _removeClass
\* takes the tokens given out of it.
C14_ClassesAreASet ==
    This \in Constructed =>
        /\ \A t \in ClassTokens :
               hasClass(Heap, This, <<t>>) <=> hasAttribute(Heap, This, "class", Str(t))
        /\ \A s \in TokenValues \cup {Str("")} :
               ClassSet(_setAttribute(Heap, This, "class", s, TRUE)) = RefTokens(s)
        /\ \A tokens \in ClassNames :
               /\ ClassSet(_addClass(Heap, This, tokens)) = ClassSet(Heap) \cup RefTokens(tokens)
               /\ ClassSet(_removeClass(Heap, This, tokens)) = ClassSet(Heap) \ RefTokens(tokens)

\* _removeClass has left the class y of an element without the class x
C14_Witness ==
    /\ call.op = "_removeClass"
    /\ ClassSet(Heap) = {"y"}

\* C19: after _mergeAttributesFrom( other ) has returned true, this element has
\* every key of other, with other's value when it is plain and with every
\* token or property of other's when it is structured; its attributes under
\* other keys are as before; other is as before; and
\* _hasAttributesMatching( other ) holds, so that _subtractAttributesOf( other )
\* called next returns true.
C19_MergeResult ==
    This \in Constructed =>
        \A other \in OtherElements :
            LET h0 == WithOther(Heap, other)
                h == _mergeAttributesFrom(h0, This, Other)
                mine == h0.attrs[This]
                theirs == h0.attrs[Other]
                merged == h.attrs[This]
            IN h.ret = Bool(TRUE) =>
                   /\ \A i \in 1..Len(theirs) :
                          LET key == theirs[i].key
                              otherValue == theirs[i].val
                              value == MapGet(merged, key)
                          IN /\ MapHas(merged, key)
                             /\ IF IsString(otherValue) THEN value = otherValue
                                ELSE /\ value.kind = otherValue.kind
                                     /\ Range(Contents(otherValue)) \subseteq Range(Contents(value))
                   /\ \A i \in 1..Len(mine) :
                          ~MapHas(theirs, mine[i].key) =>
                              MapGet(merged, mine[i].key) = mine[i].val
                   /\ h.name[Other] = h0.name[Other] /\ h.attrs[Other] = theirs
                   /\ _hasAttributesMatching(h, This, Other)
                   /\ _subtractAttributesOf(Next2(h), This, Other).ret = Bool(TRUE)

\* _mergeAttributesFrom has returned true on an element that has two classes
\* and another attribute
C19_Witness ==
    /\ call.op = "_mergeAttributesFrom"
    /\ call.ret = Bool(TRUE)
    /\ Len(attrs[This]) >= 2
    /\ MapHas(attrs[This], "class") /\ Len(MapGet(attrs[This], "class").toks) = 2

\* C20: _subtractAttributesOf( other ) returns true only when the names are
\* equal and this element has every key of other, and returns false and
\* changes nothing when a key of other is missing; after it has returned true
\* every plain key of other is absent, every structured key has lost other's
\* tokens or properties and is deleted exactly when nothing is left of it, the
\* attributes under other keys are as before, and other is as before.
C20_SubtractResult ==
    This \in Constructed =>
        \A other \in OtherElements :
            LET h0 == WithOther(Heap, other)
                h == _subtractAttributesOf(h0, This, Other)
                mine == h0.attrs[This]
                theirs == h0.attrs[Other]
                left == h.attrs[This]
                present == \A i \in 1..Len(theirs) : MapHas(mine, theirs[i].key)
            IN /\ h.ret \in {Bool(TRUE), Bool(FALSE)}
               /\ h.ret = Bool(TRUE) => name[This] = other.name /\ present
               /\ ~present => h.ret = Bool(FALSE) /\ left = mine
               /\ h.ret = Bool(TRUE) =>
                      /\ \A i \in 1..Len(theirs) :
                             LET key == theirs[i].key
                                 otherValue == theirs[i].val
                             IN IF IsString(otherValue) THEN ~MapHas(left, key)
                                ELSE LET rest == Without(MapGet(mine, key),
                                                         Range(V_keys(otherValue)))
                                     IN /\ MapHas(left, key) <=> rest # <<>>
                                        /\ MapHas(left, key) =>
                                               Contents(MapGet(left, key)) = rest
                      /\ \A i \in 1..Len(mine) :
                             ~MapHas(theirs, mine[i].key) =>
                                 MapGet(left, mine[i].key) = mine[i].val
                      /\ h.name[Other] = h0.name[Other] /\ h.attrs[Other] = theirs

\* _subtractAttributesOf has returned true and has left a class and another
\* attribute
C20_Witness ==
    /\ call.op = "_subtractAttributesOf"
    /\ call.ret = Bool(TRUE)
    /\ Len(attrs[This]) >= 2
    /\ MapHas(attrs[This], "class") /\ Len(MapGet(attrs[This], "class").toks) = 1

(***************************************************************************)
(* Attribute keys: one element with plain and structured attributes set    *)
(* and removed in any order.                                               *)
(***************************************************************************)
KeyEntries ==
    {Entry("id", Str("x")), Entry("href", Str("z")),
     Entry("class", Str("x")), Entry("style", Str("color:red;"))}

KeysNext ==
    \/ \E attributes \in SeqsUpTo(KeyEntries, 2) :
           /\ This \notin Constructed
           /\ Apply(construct(Heap, This, "div", attributes, None), "constructor", This)
    \/ \E en \in KeyEntries : SetAttribute(This, en.key, en.val, TRUE)
    \/ \E en \in KeyEntries : RemoveAttribute(This, en.key, None)
    \/ \E en \in KeyEntries : RemoveAttribute(This, en.key, Str("x"))

SpecKeys == Init /\ [][KeysNext]_vars

\* the place of a key among the stored keys
StoredAt(key) == CHOOSE i \in 1..Len(attrs[This]) : attrs[This][i].key = key

\* C15: getAttributeKeys yields every stored key once: class first when it is
\* stored, then style when it is stored, then the other keys in the order
\* the map stores them.
C15_KeysInOrder ==
    LET keys == getAttributeKeys(Heap, This)
        stored == Range(MapKeys(attrs[This]))
        first == IF "class" \in stored THEN 1 ELSE 0
        others == first + (IF "style" \in stored THEN 1 ELSE 0)
    IN /\ Range(keys) = stored
       /\ Len(keys) = Cardinality(stored)
       /\ "class" \in stored => keys[1] = "class"
       /\ "style" \in stored => keys[first + 1] = "style"
       /\ \A i, j \in (others + 1)..Len(keys) :
              i < j => StoredAt(keys[i]) < StoredAt(keys[j])

\* class and style are stored after two other keys
C15_Witness ==
    /\ Len(attrs[This]) = 4
    /\ {attrs[This][1].key, attrs[This][2].key} = {"id", "href"}
    /\ call.op = "_setAttribute"

\* the values hasAttribute( 'rel', t ) is asked about
RelValues == {"x", "y", "x y", "y x"}

\* the values t for which hasAttribute( 'rel', t ) is true
RelSet(h) == {t \in RelValues : hasAttribute(h, This, "rel", Str(t))}

\* the words of the rel attribute as getAttribute returns it
RelWords(h) ==
    IF getAttribute(h, This, "rel") = None THEN {}
    ELSE Range(Words(getAttribute(h, This, "rel").str)) \ {""}

\* C16: on an 'a' element hasAttribute( 'rel', t ) tells whether t is one of
\* the tokens of rel, _setAttribute( 'rel', v, false ) adds the token v and
\* _removeAttribute( 'rel', t ) removes the token t; on another element rel is
\* one string, hasAttribute( 'rel', t ) tells whether t is the whole value and
\* _removeAttribute( 'rel', t ) deletes the attribute.
C16_RelDependsOnName ==
    This \in Constructed =>
        IF name[This] = "a"
        THEN /\ RelSet(Heap) = RelWords(Heap)
             /\ \A t \in {"x", "y"} :
                    /\ RelSet(_setAttribute(Heap, This, "rel", Str(t), FALSE))
                           = RelSet(Heap) \cup {t}
                    /\ RelSet(_removeAttribute(Heap, This, "rel", Str(t))) = RelSet(Heap) \ {t}
        ELSE /\ \A t \in RelValues :
                    hasAttribute(Heap, This, "rel", Str(t))
                        <=> getAttribute(Heap, This, "rel") = Str(t)
             /\ \A t \in RelValues :
                    LET h == _removeAttribute(Heap, This, "rel", Str(t))
                    IN /\ ~hasAttribute(h, This, "rel", None)
                       /\ h.ret = Bool(hasAttribute(Heap, This, "rel", None))

\* _removeAttribute( 'rel', t ) has left one of two tokens on an 'a' element
C16_Witness ==
    /\ call.op = "_removeAttribute"
    /\ call.ret = Bool(FALSE)
    /\ name[This] = "a"
    /\ RelSet(Heap) = {"y"}

(***************************************************************************)
(* Bookmarks: model elements inserted by the command, their views in the   *)
(* data and in the editing pipeline, view elements parsed from data, and   *)
(* the upcast of view elements.                                            *)
(***************************************************************************)
BookmarkObjects == {1, 2, 3, 4}

BookmarkIds == {Str("x"), Str("")}

\* the elements parsed from data
ParsedElements ==
    {[name |-> "a", entries |-> <<>>],
     [name |-> "a", entries |-> <<Entry("id", Str("x"))>>],
     [name |-> "a", entries |-> <<Entry("href", Str("z")), Entry("id", Str("x"))>>],
     [name |-> "div", entries |-> <<Entry("id", Str("x"))>>]}

Models == {n \in Constructed : name[n] = "bookmark"}

Views == Constructed \ Models

Free == BookmarkObjects \ Constructed

InsertBookmark(bookmarkId) ==
    /\ Free # {}
    /\ LET m == newObject(Heap)
       IN Apply(Returning(createElement(Heap, m, "bookmark",
                                        <<Entry("bookmarkId", bookmarkId)>>), Num(m)),
                "createElement", m)

DataDowncast(m) ==
    /\ m \in Models
    /\ Free # {}
    /\ Apply(dataDowncast(Heap, m), "dataDowncast", m)

EditingDowncast(m) ==
    /\ m \in Models
    /\ Cardinality(Free) >= 2
    /\ Apply(editingDowncast(Heap, m), "editingDowncast", m)

Upcast(v) ==
    /\ v \in Views
    /\ Free # {}
    /\ Apply(upcast(Heap, v), "upcast", v)

BookmarkNext ==
    \/ \E bookmarkId \in BookmarkIds : InsertBookmark(bookmarkId)
    \/ \E m \in Models : DataDowncast(m)
    \/ \E m \in Models : EditingDowncast(m)
    \/ \E parsed \in ParsedElements :
           \E kids \in {None} \cup {Arr(<<c>>) : c \in {v \in Views : parent[v] = Null}} :
               /\ Free # {}
               /\ Construct(newObject(Heap), parsed.name, parsed.entries, kids)
    \/ \E v \in Views : Upcast(v)

SpecBookmark == Init /\ [][BookmarkNext]_vars

\* C17: the data downcast of a bookmark with the id b is a new 'a' element
\* whose id is b, without href and without children; the upcast matcher of
\* the data pipeline accepts it, and its upcast is a new bookmark whose
\* bookmarkId is b.
C17_BookmarkRoundTrip ==
    \A m \in Models :
        Cardinality(Free) >= 2 =>
            LET b == modelGetAttribute(Heap, m, "bookmarkId")
                v == dataDowncast(Heap, m).ret.n
                h1 == Next2(dataDowncast(Heap, m))
                h2 == upcast(h1, v)
            IN /\ v \notin Constructed
               /\ h1.name[v] = "a"
               /\ getAttribute(h1, v, "id") = b
               /\ getAttribute(h1, v, "href") = None
               /\ h1.children[v] = <<>>
               /\ upcastMatcher(h1, v, TRUE) = BookmarkPattern
               /\ h2.ret # NullValue
               /\ h2.ret.n \notin Constructed \cup {v}
               /\ h2.name[h2.ret.n] = "bookmark"
               /\ modelGetAttribute(h2, h2.ret.n, "bookmarkId") = b

\* a bookmark, an empty 'a' element with the bookmark's id, and the bookmark
\* that the upcast of that element has just returned
C17_Witness ==
    /\ call.op = "upcast"
    /\ call.ret # NullValue
    /\ \E m \in Models \ {call.ret.n} :
           /\ modelGetAttribute(Heap, m, "bookmarkId") = Str("x")
           /\ getAttribute(Heap, call.this, "id") = Str("x")
           /\ modelGetAttribute(Heap, call.ret.n, "bookmarkId") = Str("x")
           /\ m < call.this

\* C18: upcastMatcher( element, dataPipeline ) returns a match exactly when
\* the element is named 'a', has an id, has no href and, in the data pipeline,
\* has no children; the match names the element and its id.
C18_UpcastMatcher ==
    \A element \in Views : \A dataPipeline \in BOOLEAN :
        LET keys == Range(MapKeys(attrs[element]))
            bookmark == /\ name[element] = "a"
                        /\ "id" \in keys
                        /\ "href" \notin keys
                        /\ dataPipeline => children[element] = <<>>
        IN upcastMatcher(Heap, element, dataPipeline)
               = IF bookmark THEN BookmarkPattern ELSE NullValue

\* the editing downcast has just returned an 'a' element with an id and a
\* child, which only the editing pipeline's matcher accepts
C18_Witness ==
    /\ call.op = "editingDowncast"
    /\ children[call.ret.n] # <<>>
    /\ upcastMatcher(Heap, call.ret.n, FALSE) = BookmarkPattern
    /\ upcastMatcher(Heap, call.ret.n, TRUE) = NullValue

(***************************************************************************)
(* bookmarkediting: the listener of the model document's 'change' event.   *)
(* The model document, its roots, its writer and its differ are outside    *)
(* these files.  A root is an object whose name is its rootName; a batch   *)
(* is a list of writer operations on the main root, and the differ reports *)
(* one change for each of them, in an order of its own.                    *)
(***************************************************************************)
MaxChanges == 2     \* the most operations of one change batch

MainRoot == 1
Graveyard == 2
Paragraph == 3

\* element.root: the top of the parent chain
RECURSIVE root(_, _)
root(h, e) == IF h.parent[e] = Null THEN e ELSE root(h, h.parent[e])

\* element.root.rootName
rootName(h, e) == h.name[root(h, e)]

\* writer.insert( writer.createElement( name, attributes ), root, 'end' )
writerInsert(h, m, elementName, attributes) ==
    [createElement(h, m, elementName, attributes)
        EXCEPT !.parent[m] = MainRoot, !.children[MainRoot] = Append(@, m)]

\* writer.remove( element ): the element is moved to the graveyard root
writerRemove(h, m) ==
    [h EXCEPT !.children[h.parent[m]] = SelectSeq(@, LAMBDA n : n # m),
              !.children[Graveyard] = Append(@, m),
              !.parent[m] = Graveyard]

\* writer.setAttribute( key, value, element )
writerSetAttribute(h, m, key, value) ==
    [h EXCEPT !.attrs[m] = MapSet(@, key, value)]

\* what the differ reports of one operation: an attribute change has no name,
\* an insertion has the inserted element after its position
DiffItem(type, elementName, nodeAfter) ==
    [type |-> type, name |-> elementName, nodeAfter |-> nodeAfter]

Operation(type, elementName, value, element) ==
    [type |-> type, name |-> elementName, value |-> value, element |-> element]

\* the operations of a batch are applied in their order; changes collects
\* what the differ has to report
RECURSIVE applyOperations(_, _, _)
applyOperations(h, operations, changes) ==
    IF operations = <<>> THEN [model |-> h, changes |-> changes]
    ELSE LET operation == operations[1]
             rest == Tail(operations)
         IN CASE operation.type = "insert" ->
                     LET m == newObject(h)
                     IN applyOperations(
                            writerInsert(h, m, operation.name,
                                         IF operation.name = "bookmark"
                                         THEN <<[key |-> "bookmarkId", val |-> operation.value]>>
                                         ELSE <<>>),
                            rest, Append(changes, DiffItem("insert", operation.name, m)))
              [] operation.type = "remove" ->
                     applyOperations(writerRemove(h, operation.element), rest,
                                     Append(changes, DiffItem("remove", operation.name, Null)))
              [] OTHER ->
                     applyOperations(
                         writerSetAttribute(h, operation.element, "alignment", operation.value),
                         rest, Append(changes, DiffItem("attribute", "", Null)))

\* differ.getChanges( { includeChangesInGraveyard: true } ): the changes in
\* the order the differ gives them
getChanges(changes, order) == [i \in 1..Len(changes) |-> changes[order[i]]]

\* the loop of _trackBookmarkElements over the changes: each return of the
\* loop body ends the whole walk
RECURSIVE trackChanges(_, _)
trackChanges(h, changes) ==
    IF changes = <<>> THEN h
    ELSE LET change == changes[1]
         IN IF change.type = "attribute" \/ change.name # "bookmark" THEN h
            ELSE IF change.type = "remove"
            THEN [h EXCEPT !.bookmarkElements =
                     SelectSeq(@, LAMBDA en : rootName(h, en.key) # "$graveyard")]
            ELSE LET bookmarkElement == change.nodeAfter
                     bookmarkId == modelGetAttribute(h, bookmarkElement, "bookmarkId")
                 IN trackChanges(
                        [h EXCEPT !.bookmarkElements = MapSet(@, bookmarkElement, bookmarkId)],
                        Tail(changes))

_trackBookmarkElements(h, changes) == Returning(trackChanges(h, changes), None)

(***************************************************************************)
(* The change batches of a document with one paragraph.                    *)
(***************************************************************************)
TrackIds == {Str("x"), Str("y")}

Alignments == {Str("right")}

\* the bookmarks of the main root
Bookmarks(h) == {n \in DOMAIN h.name : h.name[n] = "bookmark" /\ rootName(h, n) = "main"}

Operations(h) ==
    {Operation("insert", "bookmark", b, Null) : b \in TrackIds}
        \cup {Operation("insert", "paragraph", Str(""), Null)}
        \cup {Operation("remove", "bookmark", Str(""), m) : m \in Bookmarks(h)}
        \cup {Operation("attribute", "paragraph", v, Paragraph) : v \in Alignments}

Count(operations, type) ==
    Cardinality({i \in 1..Len(operations) : operations[i].type = type})

\* a batch has an object for each insertion and removes an element once
Batches(h) ==
    {operations \in SeqsUpTo(Operations(h), MaxChanges) :
        /\ operations # <<>>
        /\ Count(operations, "insert") <= Cardinality({n \in DOMAIN h.name : h.name[n] = NoName})
        /\ \A i, j \in 1..Len(operations) :
               (i # j /\ operations[i].type = "remove")
                   => operations[i].element # operations[j].element}

\* the state after the batch and its 'change' event, the differ having
\* reported in the given order
changed(h, operations, order) ==
    LET done == applyOperations(h, operations, <<>>)
    IN _trackBookmarkElements(done.model, getChanges(done.changes, order))

\* new Document(): the main root, the graveyard, and a paragraph in the main root
CreateDocument ==
    /\ name[MainRoot] = NoName
    /\ Apply([Heap EXCEPT !.name[MainRoot] = "main",
                          !.name[Graveyard] = "$graveyard",
                          !.name[Paragraph] = "paragraph",
                          !.parent[Paragraph] = MainRoot,
                          !.children[MainRoot] = <<Paragraph>>],
             "createDocument", Null)

\* model.change( writer => ... ), and the 'change' event at its end
Change(operations, order) ==
    /\ name[MainRoot] # NoName
    /\ Apply(changed(Heap, operations, order), "change", Null)

TrackNext ==
    \/ CreateDocument
    \/ \E operations \in Batches(Heap) :
           \E order \in Permutations(1..Len(operations)) : Change(operations, order)

SpecTrack == Init /\ [][TrackNext]_vars

\* the bookmarks a batch inserts, as the differ reports them
Inserted(changes) ==
    {changes[i].nodeAfter : i \in {j \in 1..Len(changes) :
        changes[j].type = "insert" /\ changes[j].name = "bookmark"}}

\* C21: after the 'change' event of any batch, reported in any order,
\* bookmarkElements maps every bookmark the batch inserted to its bookmarkId
\* and holds no element whose root is the graveyard.
C21_TracksEveryBatch ==
    name[MainRoot] # NoName =>
        \A operations \in Batches(Heap) :
            \A order \in Permutations(1..Len(operations)) :
                LET h == changed(Heap, operations, order)
                IN /\ \A m \in Inserted(applyOperations(Heap, operations, <<>>).changes) :
                          MapGet(h.bookmarkElements, m) = modelGetAttribute(h, m, "bookmarkId")
                   /\ \A i \in 1..Len(h.bookmarkElements) :
                          rootName(h, h.bookmarkElements[i].key) # "$graveyard"

(***************************************************************************)
(* findAncestor.  The document fragment and the Matcher are outside these  *)
(* files: a fragment is an object without a name of its own that holds     *)
(* children and has no parent, and the Matcher is given patterns of a name *)
(* and of attributes.                                                      *)
(***************************************************************************)
FragmentName == "#documentFragment"

\* node.is( type ), of an element (Element.prototype.is without a name) and
\* of a document fragment
is(h, n, type) ==
    IF h.name[n] = FragmentName
    THEN type \in {"documentFragment", "view:documentFragment"}
    ELSE type \in {"element", "view:element", "node", "view:node"}

\* new DocumentFragment( document, children )
createDocumentFragment(h, f, kids) == construct(h, f, FragmentName, <<>>, kids)

\* a pattern of the Matcher: { name, attributes }
MatcherPattern(elementName, attributes) == [name |-> elementName, attributes |-> attributes]

\* whether the element matches one pattern: its name and then its attributes
isElementMatching(h, e, pattern) ==
    /\ isPatternMatched(pattern.name, h.name[e])
    /\ \/ pattern.attributes = <<>>
       \/ _getAttributesMatch(h, e, pattern.attributes, {}).ret # None

\* matcher.match( element ): the first pattern the element matches, or null
matcherMatch(h, e, patterns) ==
    IF \E i \in 1..Len(patterns) : isElementMatching(h, e, patterns[i])
    THEN Num(CHOOSE i \in 1..Len(patterns) :
                 /\ isElementMatching(h, e, patterns[i])
                 /\ \A j \in 1..(i - 1) : ~isElementMatching(h, e, patterns[j]))
    ELSE NullValue

\* the while loop of findAncestor, with parent at the given node
RECURSIVE climb(_, _, _)
climb(h, node, patterns) ==
    IF node = Null \/ is(h, node, "documentFragment") THEN Returning(h, NullValue)
    ELSE IF matcherMatch(h, node, patterns) # NullValue THEN Returning(h, Num(node))
    ELSE climb(h, h.parent[node], patterns)

\* the walk begun at the element itself instead of at its parent
findAncestorFromThis(h, e, patterns) == climb(h, e, patterns)

findAncestor(h, e, patterns) == climb(h, h.parent[e], patterns)

(***************************************************************************)
(* Trees of elements under document fragments.                             *)
(***************************************************************************)
AncestorNodes == {1, 2, 3, 4}

AncestorElements ==
    {[name |-> "div", entries |-> <<>>],
     [name |-> "p", entries |-> <<>>],
     [name |-> "div", entries |-> <<[key |-> "id", val |-> Str("x")]>>]}

AncestorPatterns ==
    {MatcherPattern(PString("div"), <<>>),
     MatcherPattern(PString("p"), <<>>),
     MatcherPattern(PTrue, << <<PString("id"), PTrue, None>> >>)}

Fragments == {n \in Constructed : name[n] = FragmentName}

\* the children a constructor may be given: none, or one element
AncestorChildren == {None} \cup {Arr(<<c>>) : c \in Constructed \ Fragments}

CreateDocumentFragment(f, kids) ==
    /\ f \notin Constructed
    /\ \A n \in Nodes : n < f => n \in Constructed
    /\ Apply(createDocumentFragment(Heap, f, kids), "createDocumentFragment", f)

FindAncestor(e, patterns) ==
    /\ e \in Constructed \ Fragments
    /\ Apply(findAncestor(Heap, e, patterns), "findAncestor", e)

AncestorNext ==
    \/ \E e \in AncestorNodes : \E el \in AncestorElements : \E kids \in AncestorChildren :
           Construct(e, el.name, el.entries, kids)
    \/ \E f \in AncestorNodes : \E kids \in AncestorChildren :
           CreateDocumentFragment(f, kids)
    \/ \E e \in AncestorNodes : \E patterns \in SeqsUpTo(AncestorPatterns, MaxPatterns) :
           FindAncestor(e, patterns)

SpecAncestor == Init /\ [][AncestorNext]_vars

\* the nodes from the parent of e up to a, a included
UpTo(e, a) == AncestorsOrSelf(parent, parent[e]) \ AncestorsOrSelf(parent, parent[a])

\* the proper ancestors of e that match, with no document fragment between
\* e and them or at them
MatchingBelowFragment(e, patterns) ==
    {a \in AncestorsOrSelf(parent, parent[e]) :
        /\ UpTo(e, a) \cap Fragments = {}
        /\ matcherMatch(Heap, a, patterns) # NullValue}

\* C22: findAncestor returns the nearest proper ancestor that matches and
\* lies below the nearest document fragment of the parent chain, and null
\* when there is none; what it returns is never the element itself, a
\* document fragment or a node above one.
C22_FindAncestor ==
    \A e \in Constructed \ Fragments :
        \A patterns \in SeqsUpTo(AncestorPatterns, MaxPatterns) :
            LET found == findAncestor(Heap, e, patterns).ret
                matching == MatchingBelowFragment(e, patterns)
            IN /\ found # Num(e)
               /\ \A f \in Fragments : \A n \in AncestorsOrSelf(parent, f) : found # Num(n)
               /\ IF matching = {} THEN found = NullValue
                  ELSE \E a \in matching :
                           /\ found = Num(a)
                           /\ matching \subseteq AncestorsOrSelf(parent, a)

\* findAncestor has passed over a matching element itself and over a nearer
\* ancestor that does not match, and has returned an ancestor further up that
\* lies under a document fragment
C22_Witness ==
    /\ call.op = "findAncestor"
    /\ call.ret.kind = "number"
    /\ parent[call.this] # call.ret.n
    /\ call.ret.n \in AncestorsOrSelf(parent, parent[call.this])
    /\ name[call.this] = name[call.ret.n]
    /\ \E f \in Fragments : parent[call.ret.n] = f

(***************************************************************************)
(* isSimilar on two elements that are built apart: either may hold a child *)
(* and the attributes of either are inserted in the order of its entries.  *)
(***************************************************************************)
SimilarChild == 1

SimilarElements == {2, 3}

SimilarEntries ==
    {Entry("class", Str("x y")), Entry("class", Str("y x")),
     Entry("style", Str("color:red;")),
     Entry("rel", Str("x y")), Entry("rel", Str("y x"))}

SimilarAttributes == SeqsUpTo(SimilarEntries, 2)

IsSimilar(e, o) ==
    /\ {e, o} \subseteq Constructed
    /\ Apply(Returning(Heap, Bool(isSimilar(Heap, e, o))), "isSimilar", e)

SimilarNext ==
    \/ Construct(SimilarChild, "b", <<>>, None)
    \/ \E e \in SimilarElements : \E elementName \in ElementNames :
           \E attributes \in SimilarAttributes : \E kids \in {None, Arr(<<SimilarChild>>)} :
               Construct(e, elementName, attributes, kids)
    \/ \E e \in SimilarElements : \E o \in SimilarElements \ {e} : IsSimilar(e, o)

SpecSimilar == Init /\ [][SimilarNext]_vars

\* the keys an element holds, as a set
KeySet(e) == {attrs[e][i].key : i \in 1..Len(attrs[e])}

\* the values of a key agree: equal strings, or structured values each
\* similar to the other
Agree(value, otherValue) ==
    IF IsString(value) \/ IsString(otherValue)
    THEN IsString(value) /\ IsString(otherValue) /\ value.str = otherValue.str
    ELSE V_isSimilar(value, otherValue) /\ V_isSimilar(otherValue, value)

\* C23: isSimilar is reflexive and symmetric, and A.isSimilar( B ) is true
\* exactly when the names are equal and both hold the same set of keys with
\* equal plain values and mutually similar structured values, whatever the
\* order of insertion and whatever the children.
C23_IsSimilar ==
    \A e, o \in SimilarElements \cap Constructed :
        /\ isSimilar(Heap, e, e)
        /\ isSimilar(Heap, e, o) = isSimilar(Heap, o, e)
        /\ isSimilar(Heap, e, o) <=>
               /\ name[e] = name[o]
               /\ KeySet(e) = KeySet(o)
               /\ \A key \in KeySet(e) :
                      Agree(MapGet(attrs[e], key), MapGet(attrs[o], key))

\* isSimilar has returned true for two elements that hold a plain and a
\* structured attribute inserted in different orders, one of them with a
\* child and the other without
C23_Witness ==
    /\ call.op = "isSimilar"
    /\ call.ret = Bool(TRUE)
    /\ \E e, o \in SimilarElements :
           /\ call.this = e
           /\ o # e
           /\ Len(attrs[e]) = 2
           /\ attrs[e][1].key = attrs[o][2].key
           /\ attrs[e][1].key # attrs[e][2].key
           /\ \E i, j \in 1..2 : IsString(attrs[e][i].val) /\ ~IsString(attrs[e][j].val)
           /\ children[e] # <<>>
           /\ children[o] = <<>>

====
